---- MODULE Spec2Model ----
(***************************************************************************)
(* A model of the lyrics manager: the song store (zustand), the lyrics     *)
(* editor with its section tagger, the song structure builder and the song *)
(* metadata form.  Every handler is one action: the handler's code, the    *)
(* store write it makes, and the React effects that run before the next    *)
(* event is handled.                                                       *)
(***************************************************************************)
EXTENDS Integers, Sequences, FiniteSets, TLC

\* ---------------------------------------------------------------- bounds
\* Most "Song Deleted" toasts of one list on screen at a time.
MaxToasts == 2

\* Longest lyrics text, hence the largest selection offset.
MaxLen == 3
\* Last value of the millisecond clock at which a handler may still run.
MaxNow == 5
\* Longest versions list a save may still extend.
MaxVersions == 3

\* ------------------------------------------------------- optional values
\* A JavaScript value that may be undefined, null or an array.
Undefined == [tag |-> "undefined", val |-> <<>>]
Null == [tag |-> "null", val |-> <<>>]
Some(a) == [tag |-> "some", val |-> a]
\* Truthiness of such a value: arrays (also the empty one) are truthy.
Truthy(o) == o.tag = "some"

\* selectionRange: { start, end } | null
NoSelection == [tag |-> "null", start |-> 0, end |-> 0]
Selection(s, e) == [tag |-> "range", start |-> s, end |-> e]

\* ----------------------------------------------------------------- texts
\* The section types the tagger's select offers.
AllSectionTypes ==
    {"verse", "chorus", "bridge", "intro", "outro", "pre-chorus", "hook", "instrumental"}
\* The types the model's user picks from.
SectionTypes == {"verse", "chorus"}

\* section.type.charAt(0).toUpperCase() + section.type.slice(1)
Capitalize(t) ==
    CASE t = "verse" -> "Verse"
      [] t = "chorus" -> "Chorus"
      [] t = "bridge" -> "Bridge"
      [] t = "intro" -> "Intro"
      [] t = "outro" -> "Outro"
      [] t = "pre-chorus" -> "Pre-chorus"
      [] t = "hook" -> "Hook"
      [] t = "instrumental" -> "Instrumental"
      [] OTHER -> t

\* The lyrics the user types: the prefixes of one text, a sequence of characters.
FullText == [i \in 1..MaxLen |-> IF i % 2 = 1 THEN "a" ELSE "b"]
LyricsTexts == {SubSeq(FullText, 1, n) : n \in 0..MaxLen}

Min(S) == CHOOSE x \in S : \A y \in S : x <= y

VARIABLES
    songs,           \* song store: the songs array
    now,             \* Date.now()
    route,           \* the page shown: [page, id]
    tab,             \* the tab of the editor page whose content is mounted
    notice,          \* the message the last handler emitted (toast title or console)
    lyrics,          \* LyricsEditor: the form's lyrics value
    sections,        \* LyricsEditor: sections state
    selectionRange,  \* LyricsEditor: selectionRange state
    selectedType,    \* SectionTagger: selectedType state
    hasOverlap,      \* SectionTagger: hasOverlap state
    overlapMessage,  \* SectionTagger: overlapMessage state
    canAddSection,   \* SectionTagger: canAddSection state
    checkedRange,    \* the range the tagger's last effect run passed to checkOverlap
    currentArrangement,    \* SongStructureBuilder: currentArrangement state
    lastSavedArrangement,  \* SongStructureBuilder: lastSavedArrangement state
    undoArrangement,       \* SongStructureBuilder: undoArrangement state
    hasUnsavedChanges,     \* SongStructureBuilder: hasUnsavedChanges state
    arrToast,        \* the "Arrangement Saved" toast: what its Undo closure captured
    formTitle,       \* SongMetadataForm: the form's title value
    songCategories,  \* SongMetadataForm: songCategories state
    featuredArtists, \* SongMetadataForm: featuredArtists state
    previousStateRef,\* SongMetadataForm: previousStateRef.current
    metaToast,       \* the "Changes Saved" toasts on screen, oldest first: what the
                     \* Undo closure of each captured
    deletedSongRef,  \* SongList: deletedSongRef.current of the list that is mounted
    deleteToasts,    \* the "Song Deleted" toasts of the mounted list still on screen
    detachedRefs,    \* the songs held by deletedSongRef of unmounted lists whose toast is on screen
    categories,      \* category store: the categories array
    previousCategoryRef, \* CategoryList: previousCategoryRef.current
    undoActionRef,   \* CategoryList: undoActionRef.current
    categoryToasts,  \* the category toasts with an Undo still on screen, oldest first
    localStorage,    \* window.localStorage: the text under each key, or null
    storageFails,    \* whether calls of localStorage throw (quota, storage disabled)
    otherTab         \* the songs array of a second tab of the app, null when none is open

editorVars ==
    <<lyrics, sections, selectionRange, selectedType, hasOverlap, overlapMessage,
      canAddSection, checkedRange>>
builderVars ==
    <<currentArrangement, lastSavedArrangement, undoArrangement, hasUnsavedChanges>>
formVars == <<formTitle, songCategories, featuredArtists, previousStateRef>>
toastVars == <<arrToast, metaToast>>
listVars == <<deletedSongRef, deleteToasts, detachedRefs>>
categoryVars == <<categories, previousCategoryRef, undoActionRef, categoryToasts>>
persistVars == <<localStorage, storageFails, otherTab>>
vars ==
    <<songs, now, route, tab, notice, editorVars, builderVars, formVars, toastVars,
      listVars, categoryVars, persistVars>>

\* ----------------------------------------------------------- song records
\* A version as the lyrics editor and the metadata form write it (no arrangement key).
NewVersion(t, ly, secs) ==
    [id |-> t, timestamp |-> t, lyrics |-> ly, sections |-> secs, arrangement |-> Undefined]

\* A plausible slip: the first version left empty whatever the song holds.
NewSongEmptyVersion(t, title, ly, secs, cats, artists) ==
    [id |-> t, title |-> title, lyrics |-> ly, sections |-> secs,
     arrangement |-> Undefined, previousArrangement |-> Undefined,
     versions |-> <<NewVersion(t, <<>>, <<>>)>>,
     categories |-> cats, featuredArtists |-> artists,
     createdAt |-> t, updatedAt |-> t]

\* The record the creation handlers build.
NewSong(t, title, ly, secs, cats, artists) ==
    [id |-> t, title |-> title, lyrics |-> ly, sections |-> secs,
     arrangement |-> Undefined, previousArrangement |-> Undefined,
     versions |-> <<NewVersion(t, ly, secs)>>,
     categories |-> cats, featuredArtists |-> artists,
     createdAt |-> t, updatedAt |-> t]

\* songs.find((s) => s.id === id): the index of the first match, 0 when none.
FindSong(ss, id) ==
    LET hits == {i \in 1..Len(ss) : ss[i].id = id}
    IN IF hits = {} THEN 0 ELSE Min(hits)

\* ------------------------------------------------------------- song store
addSong(ss, song) == Append(ss, song)

\* A plausible slip: the given record merged into the stored one, which keeps
\* its versions and arrangement.
updateSongMerged(ss, updatedSong) ==
    [i \in 1..Len(ss) |->
        IF ss[i].id = updatedSong.id
        THEN [updatedSong EXCEPT !.versions = ss[i].versions,
                                 !.arrangement = ss[i].arrangement,
                                 !.previousArrangement = ss[i].previousArrangement]
        ELSE ss[i]]

updateSong(ss, updatedSong) ==
    [i \in 1..Len(ss) |-> IF ss[i].id = updatedSong.id THEN updatedSong ELSE ss[i]]

\* songs.filter((song) => song.id !== id)
RECURSIVE removeSong(_, _)
removeSong(ss, id) ==
    IF ss = <<>> THEN <<>>
    ELSE IF ss[1].id = id THEN removeSong(Tail(ss), id)
    ELSE <<ss[1]>> \o removeSong(Tail(ss), id)

\* One sample song.  The ids "mock-song-k" are the negative numbers -k, apart
\* from every timestamp id; the lyrics and the offsets of the sections are
\* scaled down to the model's text, two sections each, the arrangement in the
\* order of the sections.
SampleSong(k, title, types, cats, artists, created, updated, versionTime) ==
    LET secs == [i \in 1..2 |->
                    [start |-> i - 1, end |-> i, type |-> types[i], artists |-> <<"Me">>]]
    IN [id |-> 0 - k, title |-> title, lyrics |-> FullText, sections |-> secs,
        arrangement |-> Some([i \in 1..2 |->
                                 [type |-> types[i], start |-> i - 1, end |-> i,
                                  artists |-> <<"Me">>]]),
        previousArrangement |-> Undefined,
        versions |-> <<[id |-> 0 - k, timestamp |-> versionTime, lyrics |-> FullText,
                        sections |-> secs, arrangement |-> Undefined]>>,
        categories |-> cats, featuredArtists |-> artists,
        createdAt |-> created, updatedAt |-> updated]

\* sampleSongs of initializeSampleData at time t (yesterday t - 1, two days ago t - 2)
SampleSongs(t) ==
    << SampleSong(1, "Echoes of Tomorrow", <<"verse", "chorus">>,
                  <<"Rock", "Alternative">>, <<"Alex Turner">>, t - 1, t, t - 1),
       SampleSong(2, "Crystal Skies", <<"intro", "verse">>,
                  <<"Pop", "Electronic">>, <<"Maya Johnson">>, t - 2, t - 1, t - 2),
       SampleSong(3, "Urban Rhythm", <<"verse", "hook">>,
                  <<"Hip-Hop", "R&B">>, <<"Marcus Lee">>, t - 2, t - 2, t - 2) >>

\* initializeSampleData: the songs array it leaves
initializeSampleData(ss, t) ==
    IF Len(ss) > 0 THEN ss ELSE ss \o SampleSongs(t)

\* --------------------------------------------------------- category store
NewCategory(id, name, t) == [id |-> id, name |-> name, createdAt |-> t]

addCategory(cs, category) == Append(cs, category)

\* updateCategory(id, { name })
updateCategory(cs, id, name) ==
    [i \in 1..Len(cs) |-> IF cs[i].id = id THEN [cs[i] EXCEPT !.name = name] ELSE cs[i]]

\* categories.filter((category) => category.id !== id)
RECURSIVE removeCategory(_, _)
removeCategory(cs, id) ==
    IF cs = <<>> THEN <<>>
    ELSE IF cs[1].id = id THEN removeCategory(Tail(cs), id)
    ELSE <<cs[1]>> \o removeCategory(Tail(cs), id)

\* The six sample categories; the id "cat-..." of the k-th is written -k.
SampleCategories(t) ==
    << NewCategory(-1, "Rock", t), NewCategory(-2, "Alternative", t),
       NewCategory(-3, "Pop", t), NewCategory(-4, "Electronic", t),
       NewCategory(-5, "Hip-Hop", t), NewCategory(-6, "R&B", t) >>

initializeSampleCategories(cs, t) ==
    IF Len(cs) > 0 THEN cs ELSE cs \o SampleCategories(t)

\* ------------------------------------------------------------ persistence
SongsKey == "lyrics-manager-songs"
CategoriesKey == "lyrics-manager-categories"

\* JSON.stringify leaves out a key whose value is undefined; reading a key that
\* JSON.parse did not find gives undefined.
Absent == [tag |-> "absent", val |-> <<>>]
StringifyOptional(o) == IF o.tag = "undefined" THEN Absent ELSE o
ParseOptional(o) == IF o.tag = "absent" THEN Undefined ELSE o
StringifySong(song) ==
    [song EXCEPT
       !.arrangement = StringifyOptional(@),
       !.previousArrangement = StringifyOptional(@),
       !.versions = [k \in 1..Len(@) |->
                        [@[k] EXCEPT !.arrangement = StringifyOptional(@)]]]
ParseSong(song) ==
    [song EXCEPT
       !.arrangement = ParseOptional(@),
       !.previousArrangement = ParseOptional(@),
       !.versions = [k \in 1..Len(@) |->
                        [@[k] EXCEPT !.arrangement = ParseOptional(@)]]]
\* of the value the persist middleware hands over, { state, version }
JSONStringify(value) ==
    IF "songs" \in DOMAIN value.state
    THEN [value EXCEPT !.state.songs = [i \in 1..Len(@) |-> StringifySong(@[i])]]
    ELSE value
JSONParse(text) ==
    IF "songs" \in DOMAIN text.state
    THEN [text EXCEPT !.state.songs = [i \in 1..Len(@) |-> ParseSong(@[i])]]
    ELSE text

\* storage.getItem(name) on the storage store: null when nothing is stored or
\* the call throws.
getItem(store, name) ==
    IF storageFails THEN Null
    ELSE IF store[name].tag = "some" THEN Some(JSONParse(store[name].val)) ELSE Null

\* A plausible slip: a write of the songs that keeps the stored songs the
\* writer does not hold, as a merge across tabs would.
setItemMerging(store, name, value) ==
    IF storageFails THEN store
    ELSE IF name = "lyrics-manager-songs" /\ store[name].tag = "some"
    THEN LET new == JSONStringify(value)
             kept == SelectSeq(store[name].val.state.songs,
                               LAMBDA o : \A i \in 1..Len(new.state.songs) :
                                              new.state.songs[i].id # o.id)
         IN [store EXCEPT ![name] = Some([new EXCEPT !.state.songs = kept \o @])]
    ELSE [store EXCEPT ![name] = Some(JSONStringify(value))]

\* A plausible slip: a key that already holds a text is not written again.
setItemOnce(store, name, value) ==
    IF storageFails \/ store[name].tag = "some" THEN store
    ELSE [store EXCEPT ![name] = Some(JSONStringify(value))]

\* storage.setItem(name, value): the storage it leaves; a throw is caught.
setItem(store, name, value) ==
    IF storageFails THEN store
    ELSE [store EXCEPT ![name] = Some(JSONStringify(value))]

\* A plausible slip: no try around localStorage.setItem.
setItemErrorUncaught(store, name, value) ==
    IF storageFails THEN "QuotaExceededError" ELSE ""

\* storage.setItem(name, value): the error it throws to its caller, "" for
\* none; the catch block logs the error and returns.
setItemError(store, name, value) == ""

\* What the persist middleware passes to setItem after a set: the state (its
\* functions do not serialize) under version 0.
PersistedSongs(ss) == [state |-> [songs |-> ss], version |-> 0]
PersistedCategories(cs) == [state |-> [categories |-> cs], version |-> 0]

\* What a handler emits that called set on the song store and then went on to
\* emit message: an error thrown by the write would have ended it before.
AfterSongsSet(message) ==
    IF setItemError(localStorage, SongsKey, PersistedSongs(songs')) # ""
    THEN "Uncaught error"
    ELSE message

\* A plausible slip: the initial state returned whatever was persisted.
mergeSongsKeepCurrent(persistedState, currentState) == currentState

\* merge of the song store and of the category store
mergeSongs(persistedState, currentState) ==
    IF Truthy(persistedState) /\ Len(persistedState.val.songs) > 0
    THEN [currentState EXCEPT !.songs = persistedState.val.songs]
    ELSE currentState
mergeCategories(persistedState, currentState) ==
    IF Truthy(persistedState) /\ Len(persistedState.val.categories) > 0
    THEN [currentState EXCEPT !.categories = persistedState.val.categories]
    ELSE currentState

\* The state a store starts with when its module loads: the middleware reads
\* the key and merges what it found into the initial state.
\* The merge option is that of the store persisted under the name.
Rehydrated(store, name, initialState) ==
    LET value == getItem(store, name)
        persistedState == IF Truthy(value) THEN Some(value.val.state) ELSE Undefined
    IN IF name = SongsKey
       THEN mergeSongs(persistedState, initialState)
       ELSE mergeCategories(persistedState, initialState)

\* The handler's writes to the song store have gone through the middleware:
\* the songs key holds the collection (a write of an unchanged collection
\* leaves the text as it is).
SongsPersisted ==
    localStorage' = IF songs' = songs THEN localStorage
                    ELSE setItem(localStorage, SongsKey, PersistedSongs(songs'))

\* The handler touches the song store alone.
SongsWritten ==
    /\ SongsPersisted
    /\ UNCHANGED <<storageFails, otherTab, categoryVars>>

\* ---------------------------------------------------------- section tagger
\* The condition of checkOverlap's loop body, for one section.
OverlapsSection(start, end, section) ==
    \/ (start <= section.start /\ end > section.start)
    \/ (start >= section.start /\ start < section.end)
    \/ (start <= section.start /\ end >= section.end)

\* A plausible slip: a touching boundary counted as an overlap.
checkOverlapInclusive(secs, start, end) ==
    LET hits == {i \in 1..Len(secs) :
                    start <= secs[i].end /\ secs[i].start <= end}
    IN IF hits = {}
       THEN [hasOverlap |-> FALSE, message |-> ""]
       ELSE [hasOverlap |-> TRUE, message |-> Capitalize(secs[Min(hits)].type)]

\* checkOverlap: the first section in array order that meets the condition.
checkOverlap(secs, start, end) ==
    LET hits == {i \in 1..Len(secs) : OverlapsSection(start, end, secs[i])}
    IN IF hits = {}
       THEN [hasOverlap |-> FALSE, message |-> ""]
       ELSE [hasOverlap |-> TRUE, message |-> Capitalize(secs[Min(hits)].type)]

\* A plausible slip: the effect without its start < end guard.
TaggerEffectUnguarded(sel, secs) ==
    IF sel.tag = "range"
    THEN LET r == checkOverlap(secs, sel.start, sel.end)
         IN [hasOverlap |-> r.hasOverlap, overlapMessage |-> r.message,
             canAddSection |-> ~r.hasOverlap,
             checkedRange |-> Selection(sel.start, sel.end)]
    ELSE [hasOverlap |-> FALSE, overlapMessage |-> "", canAddSection |-> FALSE,
          checkedRange |-> NoSelection]

\* useEffect(..., [selectionRange, sections]): what the effect leaves in the state.
TaggerEffect(sel, secs) ==
    IF sel.tag = "range" /\ sel.start < sel.end
    THEN LET r == checkOverlap(secs, sel.start, sel.end)
         IN [hasOverlap |-> r.hasOverlap, overlapMessage |-> r.message,
             canAddSection |-> ~r.hasOverlap,
             checkedRange |-> Selection(sel.start, sel.end)]
    ELSE [hasOverlap |-> FALSE, overlapMessage |-> "", canAddSection |-> FALSE,
          checkedRange |-> NoSelection]

\* The tagger's state after its effect ran on the given selection and sections.
RunTaggerEffect(sel, secs) ==
    LET r == TaggerEffect(sel, secs)
    IN /\ hasOverlap' = r.hasOverlap
       /\ overlapMessage' = r.overlapMessage
       /\ canAddSection' = r.canAddSection
       /\ checkedRange' = r.checkedRange

\* The section addSection builds from the selection.
NewSection(sel, type) ==
    [start |-> sel.start, end |-> sel.end, type |-> type, artists |-> <<>>]

\* LyricsEditor.handleSelectionChange, called with what the selection collaborator
\* reports: null, or a pair of offsets into the text.
handleSelectionChange ==
    /\ tab = "editor"
    /\ \E sel \in {NoSelection} \cup
                  {Selection(s, e) : s \in 0..Len(lyrics), e \in 0..Len(lyrics)} :
          /\ selectionRange' = sel
          /\ RunTaggerEffect(sel, sections)
    /\ notice' = ""
    /\ UNCHANGED <<songs, now, route, tab, lyrics, sections, selectedType,
                   builderVars, formVars, toastVars>>
    /\ UNCHANGED listVars
    /\ UNCHANGED <<categoryVars, persistVars>>

\* The type select of the tagger.
setSelectedType ==
    /\ tab = "editor"
    /\ \E t \in SectionTypes : selectedType' = t
    /\ notice' = ""
    /\ UNCHANGED <<songs, now, route, tab, lyrics, sections, selectionRange,
                   hasOverlap, overlapMessage, canAddSection, checkedRange,
                   builderVars, formVars, toastVars>>
    /\ UNCHANGED listVars
    /\ UNCHANGED <<categoryVars, persistVars>>

\* A plausible slip: addSection without its test of hasOverlap.
addSectionAllowedNoOverlapTest ==
    selectionRange.tag = "range" /\ selectionRange.start < selectionRange.end

\* The negation of addSection's early return.
addSectionAllowed ==
    /\ selectionRange.tag = "range"
    /\ selectionRange.start < selectionRange.end
    /\ ~hasOverlap

\* A plausible slip: the sections changed without the selection being cleared.
addSectionKeepsSelection ==
    /\ tab = "editor"
    /\ IF addSectionAllowed
       THEN /\ sections' = Append(sections, NewSection(selectionRange, selectedType))
            /\ selectionRange' = selectionRange
            /\ RunTaggerEffect(selectionRange, sections')
            /\ notice' = ""
       ELSE /\ notice' = "Invalid selection range or overlap"
            /\ UNCHANGED <<sections, selectionRange, hasOverlap, overlapMessage,
                           canAddSection, checkedRange>>
    /\ UNCHANGED <<songs, now, route, tab, lyrics, selectedType,
                   builderVars, formVars, toastVars>>
    /\ UNCHANGED listVars
    /\ UNCHANGED <<categoryVars, persistVars>>

\* SectionTagger.addSection, with LyricsEditor.handleSectionsChange (which also
\* clears the selection) and the tagger's effect.
addSection ==
    /\ tab = "editor"
    /\ IF addSectionAllowed
       THEN /\ sections' = Append(sections, NewSection(selectionRange, selectedType))
            /\ selectionRange' = NoSelection
            /\ RunTaggerEffect(NoSelection, sections')
            /\ notice' = ""
       ELSE /\ notice' = "Invalid selection range or overlap"
            /\ UNCHANGED <<sections, selectionRange, hasOverlap, overlapMessage,
                           canAddSection, checkedRange>>
    /\ UNCHANGED <<songs, now, route, tab, lyrics, selectedType,
                   builderVars, formVars, toastVars>>
    /\ UNCHANGED listVars
    /\ UNCHANGED <<categoryVars, persistVars>>

\* The user edits the text: SimpleEditor.handleChange calls
\* LyricsEditor.handleLyricsChange, and the textarea's caret (a collapsed
\* selection) is reported by SimpleEditor.handleSelectionChange as null.
handleLyricsChange ==
    /\ tab = "editor"
    /\ \E newLyrics \in LyricsTexts :
          /\ newLyrics # lyrics
          /\ lyrics' = newLyrics
    /\ selectionRange' = NoSelection
    /\ RunTaggerEffect(NoSelection, sections)
    /\ notice' = ""
    /\ UNCHANGED <<songs, now, route, tab, sections, selectedType,
                   builderVars, formVars, toastVars>>
    /\ UNCHANGED listVars
    /\ UNCHANGED <<categoryVars, persistVars>>

\* ------------------------------------------------------ component state
\* What useState gives each component when it mounts, before its effects run;
\* also the value the model keeps for a component that is not mounted.
EditorInitial ==
    [lyrics |-> <<>>, sections |-> <<>>, selectionRange |-> NoSelection,
     selectedType |-> "verse", hasOverlap |-> FALSE, overlapMessage |-> "",
     canAddSection |-> FALSE, checkedRange |-> NoSelection]

BuilderInitial ==
    [currentArrangement |-> <<>>, lastSavedArrangement |-> <<>>,
     undoArrangement |-> Null, hasUnsavedChanges |-> FALSE]

FormInitial ==
    [formTitle |-> "Untitled Song", songCategories |-> <<>>, featuredArtists |-> <<>>,
     previousStateRef |-> Null]

\* The component's state is the given one.
EditorIs(e) ==
    /\ lyrics = e.lyrics
    /\ sections = e.sections
    /\ selectionRange = e.selectionRange
    /\ selectedType = e.selectedType
    /\ hasOverlap = e.hasOverlap
    /\ overlapMessage = e.overlapMessage
    /\ canAddSection = e.canAddSection
    /\ checkedRange = e.checkedRange

BuilderIs(b) ==
    /\ currentArrangement = b.currentArrangement
    /\ lastSavedArrangement = b.lastSavedArrangement
    /\ undoArrangement = b.undoArrangement
    /\ hasUnsavedChanges = b.hasUnsavedChanges

FormIs(f) ==
    /\ formTitle = f.formTitle
    /\ songCategories = f.songCategories
    /\ featuredArtists = f.featuredArtists
    /\ previousStateRef = f.previousStateRef

SetEditor(e) ==
    /\ lyrics' = e.lyrics
    /\ sections' = e.sections
    /\ selectionRange' = e.selectionRange
    /\ selectedType' = e.selectedType
    /\ hasOverlap' = e.hasOverlap
    /\ overlapMessage' = e.overlapMessage
    /\ canAddSection' = e.canAddSection
    /\ checkedRange' = e.checkedRange

SetBuilder(b) ==
    /\ currentArrangement' = b.currentArrangement
    /\ lastSavedArrangement' = b.lastSavedArrangement
    /\ undoArrangement' = b.undoArrangement
    /\ hasUnsavedChanges' = b.hasUnsavedChanges

SetForm(f) ==
    /\ formTitle' = f.formTitle
    /\ songCategories' = f.songCategories
    /\ featuredArtists' = f.featuredArtists
    /\ previousStateRef' = f.previousStateRef

\* LyricsEditor's effect on currentSong: the form and the sections reloaded from
\* the stored record; the tagger's effect follows.
EditorLoaded(e, song) ==
    LET r == TaggerEffect(e.selectionRange, song.sections)
    IN [e EXCEPT !.lyrics = song.lyrics, !.sections = song.sections,
                 !.hasOverlap = r.hasOverlap, !.overlapMessage = r.overlapMessage,
                 !.canAddSection = r.canAddSection, !.checkedRange = r.checkedRange]

\* SongMetadataForm's effect on currentSong.
FormLoaded(f, song) ==
    [f EXCEPT !.formTitle = song.title, !.songCategories = song.categories,
              !.featuredArtists = song.featuredArtists]

\* ------------------------------------------------------ structure builder
\* String.prototype.substring on a sequence of characters: arguments clamped to
\* [0, length] and swapped when start > end.
Clamp(n, len) == IF n < 0 THEN 0 ELSE IF n > len THEN len ELSE n
Substring(text, start, end) ==
    LET a == Clamp(start, Len(text))
        b == Clamp(end, Len(text))
    IN IF a <= b THEN SubSeq(text, a + 1, b) ELSE SubSeq(text, b + 1, a)

\* One ArrangedSection, built from a section or an arrangement entry at an index.
ArrangedSection(entry, index, text, t) ==
    [id |-> <<index, t>>, type |-> IF entry.type = "" THEN "unknown" ELSE entry.type,
     content |-> Substring(text, entry.start, entry.end),
     originalStart |-> entry.start, originalEnd |-> entry.end]

\* A plausible slip: a sort that is not stable, each element inserted before
\* the ones equal to it.
RECURSIVE SortByStartTiesReversed(_)
SortByStartTiesReversed(arr) ==
    IF Len(arr) <= 1 THEN arr
    ELSE LET rest == SortByStartTiesReversed(SubSeq(arr, 1, Len(arr) - 1))
             x == arr[Len(arr)]
             k == Cardinality({i \in 1..Len(rest) : rest[i].originalStart < x.originalStart})
         IN SubSeq(rest, 1, k) \o <<x>> \o SubSeq(rest, k + 1, Len(rest))

\* Array.prototype.sort by originalStart, stable: insertion of each element
\* after the last one that is not greater.
RECURSIVE SortByStart(_)
SortByStart(arr) ==
    IF Len(arr) <= 1 THEN arr
    ELSE LET rest == SortByStart(SubSeq(arr, 1, Len(arr) - 1))
             x == arr[Len(arr)]
             k == Cardinality({i \in 1..Len(rest) : rest[i].originalStart <= x.originalStart})
         IN SubSeq(rest, 1, k) \o <<x>> \o SubSeq(rest, k + 1, Len(rest))

\* A plausible slip: the fallback taken before the stored arrangement.
BuildArrangementSectionsFirst(song, t) ==
    IF Len(song.sections) > 0
    THEN SortByStart([i \in 1..Len(song.sections) |->
                        ArrangedSection(song.sections[i], i - 1, song.lyrics, t)])
    ELSE IF Truthy(song.arrangement) /\ Len(song.arrangement.val) > 0
    THEN [i \in 1..Len(song.arrangement.val) |->
             ArrangedSection(song.arrangement.val[i], i - 1, song.lyrics, t)]
    ELSE <<>>

\* sectionsToUse of the builder's effect on song: the stored arrangement when it
\* is a non-empty array, else the sections sorted by start.
BuildArrangement(song, t) ==
    IF Truthy(song.arrangement) /\ Len(song.arrangement.val) > 0
    THEN [i \in 1..Len(song.arrangement.val) |->
             ArrangedSection(song.arrangement.val[i], i - 1, song.lyrics, t)]
    ELSE IF Len(song.sections) > 0
    THEN SortByStart([i \in 1..Len(song.sections) |->
                        ArrangedSection(song.sections[i], i - 1, song.lyrics, t)])
    ELSE <<>>

\* A plausible slip: only the types compared, not the offsets.
UnsavedChangesTypesOnly(current, lastSaved, before) ==
    IF Len(lastSaved) > 0 /\ Len(current) > 0
    THEN IF Len(lastSaved) # Len(current)
         THEN TRUE
         ELSE \E i \in 1..Len(current) : current[i].type # lastSaved[i].type
    ELSE before

\* The builder's effect on [currentArrangement, lastSavedArrangement]: the flag
\* it leaves, given the flag before.
UnsavedChanges(current, lastSaved, before) ==
    IF Len(lastSaved) > 0 /\ Len(current) > 0
    THEN IF Len(lastSaved) # Len(current)
         THEN TRUE
         ELSE \E i \in 1..Len(current) :
                 \/ current[i].type # lastSaved[i].type
                 \/ current[i].originalStart # lastSaved[i].originalStart
                 \/ current[i].originalEnd # lastSaved[i].originalEnd
    ELSE before

\* The builder's effect on song, then its effect on the two arrangements.
BuilderLoaded(song, t) ==
    LET arrangedSections == BuildArrangement(song, t)
    IN [currentArrangement |-> arrangedSections,
        lastSavedArrangement |-> arrangedSections,
        undoArrangement |-> Some(arrangedSections),
        hasUnsavedChanges |-> UnsavedChanges(arrangedSections, arrangedSections, FALSE)]

\* arrangementData of saveArrangement: section.artists is no field of an
\* ArrangedSection, so every entry gets an empty artists array.
ArrangementData(arr) ==
    [i \in 1..Len(arr) |->
        [type |-> arr[i].type, start |-> arr[i].originalStart,
         end |-> arr[i].originalEnd, artists |-> <<>>]]

\* arrangementData of undoSave: entries without an artists key.
UndoArrangementData(arr) ==
    [i \in 1..Len(arr) |->
        [type |-> arr[i].type, start |-> arr[i].originalStart, end |-> arr[i].originalEnd]]

\* A version that carries an arrangement.
ArrangementVersion(t, song, arrangementData) ==
    [id |-> t, timestamp |-> t, lyrics |-> song.lyrics, sections |-> song.sections,
     arrangement |-> Some(arrangementData)]

\* ----------------------------------------------- song store: arrangements
\* A plausible slip: the undo slot not filled by the save.
saveSongArrangementKeepPrevious(ss, id, arrangement, t) ==
    LET i == FindSong(ss, id)
    IN IF i = 0 THEN ss
       ELSE LET song == ss[i]
                updatedSong ==
                    [song EXCEPT
                       !.arrangement = Some(arrangement),
                       !.updatedAt = t,
                       !.versions = Append(song.versions, ArrangementVersion(t, song, arrangement))]
            IN [k \in 1..Len(ss) |-> IF ss[k].id = id THEN updatedSong ELSE ss[k]]

\* A plausible slip: the save replaces the version list by the new version.
saveSongArrangementDropVersions(ss, id, arrangement, t) ==
    LET i == FindSong(ss, id)
    IN IF i = 0 THEN ss
       ELSE LET song == ss[i]
                updatedSong ==
                    [song EXCEPT
                       !.previousArrangement =
                           IF Truthy(song.arrangement) THEN Some(song.arrangement.val) ELSE Null,
                       !.arrangement = Some(arrangement),
                       !.updatedAt = t,
                       !.versions = <<ArrangementVersion(t, song, arrangement)>>]
            IN [k \in 1..Len(ss) |-> IF ss[k].id = id THEN updatedSong ELSE ss[k]]

\* A plausible slip: an id that matches no song falls on the first record.
saveSongArrangementFirstWhenMissing(ss, id, arrangement, t) ==
    LET found == FindSong(ss, id)
        i == IF found = 0 /\ Len(ss) > 0 THEN 1 ELSE found
    IN IF i = 0 THEN ss
       ELSE LET song == ss[i]
                updatedSong ==
                    [song EXCEPT
                       !.previousArrangement =
                           IF Truthy(song.arrangement) THEN Some(song.arrangement.val) ELSE Null,
                       !.arrangement = Some(arrangement),
                       !.updatedAt = t,
                       !.versions = Append(song.versions, ArrangementVersion(t, song, arrangement))]
            IN [k \in 1..Len(ss) |-> IF k = i THEN updatedSong ELSE ss[k]]

\* saveSongArrangement: the songs array it sets (the array as it is when no song
\* has the id).
saveSongArrangement(ss, id, arrangement, t) ==
    LET i == FindSong(ss, id)
    IN IF i = 0 THEN ss
       ELSE LET song == ss[i]
                updatedSong ==
                    [song EXCEPT
                       !.previousArrangement =
                           IF Truthy(song.arrangement) THEN Some(song.arrangement.val) ELSE Null,
                       !.arrangement = Some(arrangement),
                       !.updatedAt = t,
                       !.versions = Append(song.versions, ArrangementVersion(t, song, arrangement))]
            IN [k \in 1..Len(ss) |-> IF ss[k].id = id THEN updatedSong ELSE ss[k]]

\* A plausible slip: the restore without its test of previousArrangement.
restorePreviousArrangementUnguarded(ss, id, t) ==
    LET i == FindSong(ss, id)
    IN IF i = 0 THEN ss
       ELSE LET song == ss[i]
                updatedSong ==
                    [song EXCEPT
                       !.arrangement = Some(song.previousArrangement.val),
                       !.previousArrangement = Null,
                       !.updatedAt = t]
            IN [k \in 1..Len(ss) |-> IF ss[k].id = id THEN updatedSong ELSE ss[k]]

\* A plausible slip: the undo slot kept after the restore.
restorePreviousArrangementKeepSlot(ss, id, t) ==
    LET i == FindSong(ss, id)
    IN IF i = 0 THEN ss
       ELSE IF ~Truthy(ss[i].previousArrangement) THEN ss
       ELSE LET song == ss[i]
                updatedSong ==
                    [song EXCEPT
                       !.arrangement = Some(song.previousArrangement.val),
                       !.updatedAt = t]
            IN [k \in 1..Len(ss) |-> IF ss[k].id = id THEN updatedSong ELSE ss[k]]

\* restorePreviousArrangement: the songs array it sets (the array as it is when
\* no song has the id or the song has no previous arrangement).
restorePreviousArrangement(ss, id, t) ==
    LET i == FindSong(ss, id)
    IN IF i = 0 THEN ss
       ELSE IF ~Truthy(ss[i].previousArrangement) THEN ss
       ELSE LET song == ss[i]
                updatedSong ==
                    [song EXCEPT
                       !.arrangement = Some(song.previousArrangement.val),
                       !.previousArrangement = Null,
                       !.updatedAt = t]
            IN [k \in 1..Len(ss) |-> IF ss[k].id = id THEN updatedSong ELSE ss[k]]

\* ------------------------------------------------- mounting and reloading
CurEditor ==
    [lyrics |-> lyrics, sections |-> sections, selectionRange |-> selectionRange,
     selectedType |-> selectedType, hasOverlap |-> hasOverlap,
     overlapMessage |-> overlapMessage, canAddSection |-> canAddSection,
     checkedRange |-> checkedRange]
CurBuilder ==
    [currentArrangement |-> currentArrangement,
     lastSavedArrangement |-> lastSavedArrangement,
     undoArrangement |-> undoArrangement, hasUnsavedChanges |-> hasUnsavedChanges]
CurForm ==
    [formTitle |-> formTitle, songCategories |-> songCategories,
     featuredArtists |-> featuredArtists, previousStateRef |-> previousStateRef]

\* The page [r, tb] is shown afresh over the store ss at time t: the content of
\* tab tb mounts and its effects load the song; the other tabs hold nothing.
Mount(ss, r, tb, t) ==
    LET i == IF r.page = "song" THEN FindSong(ss, r.id) ELSE 0
    IN /\ SetForm(IF tb = "details" /\ i # 0
                  THEN FormLoaded(FormInitial, ss[i]) ELSE FormInitial)
       /\ SetEditor(IF tb = "editor" /\ i # 0
                    THEN EditorLoaded(EditorInitial, ss[i]) ELSE EditorInitial)
       /\ SetBuilder(IF tb = "structure" /\ i # 0
                     THEN BuilderLoaded(ss[i], t) ELSE BuilderInitial)

\* A plausible slip: the builder's effect on song left out.
ReloadKeepsBuilder(ss, id, t) ==
    LET i == IF route.page = "song" /\ route.id = id THEN FindSong(ss, id) ELSE 0
    IN /\ SetForm(IF tab = "details" /\ i # 0
                  THEN FormLoaded(CurForm, ss[i]) ELSE CurForm)
       /\ SetEditor(IF tab = "editor" /\ i # 0
                    THEN EditorLoaded(CurEditor, ss[i]) ELSE CurEditor)
       /\ SetBuilder(CurBuilder)

\* The store now holds ss, in which the record of song id was replaced: when
\* that is the song shown, the effects on the song of the mounted tab run.
Reload(ss, id, t) ==
    LET i == IF route.page = "song" /\ route.id = id THEN FindSong(ss, id) ELSE 0
    IN /\ SetForm(IF tab = "details" /\ i # 0
                  THEN FormLoaded(CurForm, ss[i]) ELSE CurForm)
       /\ SetEditor(IF tab = "editor" /\ i # 0
                    THEN EditorLoaded(CurEditor, ss[i]) ELSE CurEditor)
       /\ SetBuilder(IF tab = "structure" /\ i # 0
                     THEN BuilderLoaded(ss[i], t) ELSE CurBuilder)

\* -------------------------------------------------------------- navigation
ListPage == [page |-> "list", id |-> 0]
NewPage == [page |-> "new", id |-> 0]
SongPage(id) == [page |-> "song", id |-> id]

\* The list page unmounts: its deletedSongRef lives on only in the Undo of the
\* "Song Deleted" toasts still on screen (the toasts outlive the page, as the
\* "Song created" toast shown before router.push does).
ListUnmounted ==
    /\ detachedRefs' = IF deleteToasts > 0 /\ Truthy(deletedSongRef)
                       THEN detachedRefs \cup {deletedSongRef.val}
                       ELSE detachedRefs
    /\ deletedSongRef' = Null
    /\ deleteToasts' = 0

\* SongList.handleRowClick: router.push to the song's editor page, whose Tabs
\* start on "details".
openSong ==
    /\ route.page = "list"
    /\ \E i \in 1..Len(songs) :
          /\ route' = SongPage(songs[i].id)
          /\ tab' = "details"
          /\ Mount(songs, route', tab', now)
    /\ ListUnmounted
    /\ notice' = ""
    /\ UNCHANGED <<songs, now, toastVars>>
    /\ UNCHANGED <<categoryVars, persistVars>>

\* The "New Song" link of the home page: /editor/new.
openNew ==
    /\ route.page = "list"
    /\ route' = NewPage
    /\ tab' = "details"
    /\ Mount(songs, route', tab', now)
    /\ ListUnmounted
    /\ notice' = ""
    /\ UNCHANGED <<songs, now, toastVars>>
    /\ UNCHANGED <<categoryVars, persistVars>>

\* A toast of the CategoryList that is mounted: its Undo reads the refs of
\* that list.
MountedToast(title) ==
    [title |-> title, list |-> 0, previousCategory |-> Null, undoAction |-> "null"]

\* The category page unmounts.  The Undo of each toast it showed is the
\* handleUndo closure of that CategoryList and keeps its two refs, which the
\* toasts of one list share: they get a number no other toast on screen has
\* and carry the refs.
CategoryListUnmounted ==
    /\ categoryToasts' =
          LET used == {categoryToasts[k].list : k \in 1..Len(categoryToasts)}
              n == Min((1..(Len(categoryToasts) + 1)) \ used)
          IN [k \in 1..Len(categoryToasts) |->
                IF categoryToasts[k].list = 0
                THEN [categoryToasts[k] EXCEPT !.list = n,
                                               !.previousCategory = previousCategoryRef,
                                               !.undoAction = undoActionRef]
                ELSE categoryToasts[k]]
    /\ previousCategoryRef' = Null
    /\ undoActionRef' = "null"

\* Back to the home page: the editor page unmounts, Home mounts with a new
\* SongList, and Home's effect calls initializeSampleData.
goList ==
    /\ route.page # "list"
    /\ Len(songs) = 0 => now <= MaxNow
    /\ route' = ListPage
    /\ tab' = "none"
    /\ songs' = initializeSampleData(songs, now)
    /\ now' = IF Len(songs) = 0 THEN now + 1 ELSE now
    /\ Mount(songs', route', tab', now)
    /\ notice' = ""
    /\ categories' = initializeSampleCategories(categories, now)
    /\ localStorage' =
          LET written == IF Len(songs) = 0
                         THEN setItem(localStorage, SongsKey, PersistedSongs(songs'))
                         ELSE localStorage
          IN IF Len(categories) = 0
             THEN setItem(written, CategoriesKey, PersistedCategories(categories'))
             ELSE written
    /\ CategoryListUnmounted
    /\ UNCHANGED <<toastVars, listVars, storageFails, otherTab>>

\* A tab trigger of the editor page; "structure" is disabled for a new song.
selectTab ==
    /\ route.page # "list"
    /\ \E tb \in {"details", "editor", "structure"} :
          /\ tb # tab
          /\ tb = "structure" => route.page = "song"
          /\ tab' = tb
          /\ Mount(songs, route, tb, now)
    /\ notice' = ""
    /\ UNCHANGED <<songs, now, route, toastVars>>
    /\ UNCHANGED listVars
    /\ UNCHANGED <<categoryVars, persistVars>>

\* ------------------------------------------------------------ metadata form
\* The titles, category names and artist names the model's user enters.
Titles == {"Echo", "echo"}
CategoryNames == {"Rock"}
ArtistNames == {"Alex Turner"}

\* String.prototype.toLowerCase on the model's titles.
ToLowerCase(t) ==
    CASE t = "Echo" -> "echo"
      [] t = "Untitled Song" -> "untitled song"
      [] t = "Echoes of Tomorrow" -> "echoes of tomorrow"
      [] t = "Crystal Skies" -> "crystal skies"
      [] t = "Urban Rhythm" -> "urban rhythm"
      [] t = "Rock" -> "rock"
      [] t = "Jazz" -> "jazz"
      [] t = "Pop" -> "pop"
      [] OTHER -> t

\* array.includes
Includes(arr, x) == \E i \in 1..Len(arr) : arr[i] = x
\* array.filter((y) => y !== x)
RECURSIVE Without(_, _)
Without(arr, x) ==
    IF arr = <<>> THEN <<>>
    ELSE IF arr[1] = x THEN Without(Tail(arr), x)
    ELSE <<arr[1]>> \o Without(Tail(arr), x)

\* The open song's index in the store (currentSong), 0 when there is none.
CurrentSong == IF route.page = "song" THEN FindSong(songs, route.id) ELSE 0

\* ------------------------------------------- section tagger: the list rows
\* LyricsEditor.handleSectionsChange as the tagger calls it: the sections
\* replaced, the selection cleared; the tagger's effect follows.
handleSectionsChange(newSections) ==
    /\ sections' = newSections
    /\ selectionRange' = NoSelection
    /\ RunTaggerEffect(NoSelection, newSections)

\* sortedSections: [...sections].sort((a, b) => a.start - b.start), stable.
RECURSIVE SortSections(_)
SortSections(secs) ==
    IF Len(secs) <= 1 THEN secs
    ELSE LET rest == SortSections(SubSeq(secs, 1, Len(secs) - 1))
             x == secs[Len(secs)]
             k == Cardinality({i \in 1..Len(rest) : rest[i].start <= x.start})
         IN SubSeq(rest, 1, k) \o <<x>> \o SubSeq(rest, k + 1, Len(rest))

\* The comparison removeSection and toggleArtistForSection match a section by.
SameSection(a, b) == a.start = b.start /\ a.end = b.end /\ a.type = b.type

\* A plausible slip: the index of the row taken as an index into sections.
removeSectionUnsorted(secs, index) ==
    LET sectionToRemove == secs[index + 1]
    IN SelectSeq(secs, LAMBDA section : ~SameSection(section, sectionToRemove))

\* removeSection(index): the array it hands to onSectionsChange.
removeSectionResult(secs, index) ==
    LET sectionToRemove == SortSections(secs)[index + 1]
    IN SelectSeq(secs, LAMBDA section : ~SameSection(section, sectionToRemove))

\* The remove button of row index of the tagger's list.
removeSectionAt(index) ==
    /\ tab = "editor"
    /\ index \in 0..(Len(sections) - 1)
    /\ handleSectionsChange(removeSectionResult(sections, index))
    /\ notice' = ""
    /\ UNCHANGED <<songs, now, route, tab, lyrics, selectedType,
                   builderVars, formVars, toastVars>>
    /\ UNCHANGED listVars
    /\ UNCHANGED <<categoryVars, persistVars>>

removeSection == \E index \in 0..(Len(sections) - 1) : removeSectionAt(index)

\* allPerformers of the tagger: the current user (no profile name stored) and
\* the featured artists of the stored song.
AllPerformers ==
    {"Chester"} \cup
        (IF CurrentSong = 0 THEN {}
         ELSE {songs[CurrentSong].featuredArtists[i] :
                  i \in 1..Len(songs[CurrentSong].featuredArtists)})

\* A plausible slip: the performer added whether present or not.
toggleArtistAlwaysAdds(secs, sectionIndex, artist) ==
    LET section == SortSections(secs)[sectionIndex + 1]
        found == {i \in 1..Len(secs) : SameSection(secs[i], section)}
    IN IF found = {} THEN secs
       ELSE [secs EXCEPT ![Min(found)].artists = Append(@, artist)]

\* toggleArtistForSection(sectionIndex, artist): the array it hands to
\* onSectionsChange (the array as it is when findIndex gives -1).
toggleArtistForSectionResult(secs, sectionIndex, artist) ==
    LET section == SortSections(secs)[sectionIndex + 1]
        found == {i \in 1..Len(secs) : SameSection(secs[i], section)}
    IN IF found = {} THEN secs
       ELSE [secs EXCEPT ![Min(found)].artists =
                IF Includes(@, artist) THEN Without(@, artist) ELSE Append(@, artist)]

\* A performer's checkbox in row sectionIndex of the tagger's list.
toggleArtistForSectionAt(sectionIndex, artist) ==
    /\ tab = "editor"
    /\ sectionIndex \in 0..(Len(sections) - 1)
    /\ artist \in AllPerformers
    /\ handleSectionsChange(toggleArtistForSectionResult(sections, sectionIndex, artist))
    /\ notice' = ""
    /\ UNCHANGED <<songs, now, route, tab, lyrics, selectedType,
                   builderVars, formVars, toastVars>>
    /\ UNCHANGED listVars
    /\ UNCHANGED <<categoryVars, persistVars>>

toggleArtistForSection ==
    \E sectionIndex \in 0..(Len(sections) - 1), artist \in AllPerformers :
        toggleArtistForSectionAt(sectionIndex, artist)

\* ------------------------------------------------- metadata form: fields
\* The user types a title.
setTitle ==
    /\ tab = "details"
    /\ \E t \in Titles \cup {""} : t # formTitle /\ formTitle' = t
    /\ notice' = ""
    /\ UNCHANGED <<songs, now, route, tab, songCategories, featuredArtists,
                   previousStateRef, editorVars, builderVars, toastVars>>
    /\ UNCHANGED listVars
    /\ UNCHANGED <<categoryVars, persistVars>>

handleCategorySelect ==
    /\ tab = "details"
    /\ \E value \in CategoryNames :
          /\ ~Includes(songCategories, value)
          /\ songCategories' = Append(songCategories, value)
    /\ notice' = ""
    /\ UNCHANGED <<songs, now, route, tab, formTitle, featuredArtists,
                   previousStateRef, editorVars, builderVars, toastVars>>
    /\ UNCHANGED listVars
    /\ UNCHANGED <<categoryVars, persistVars>>

handleRemoveCategory ==
    /\ tab = "details"
    /\ \E category \in CategoryNames :
          /\ Includes(songCategories, category)
          /\ songCategories' = Without(songCategories, category)
    /\ notice' = ""
    /\ UNCHANGED <<songs, now, route, tab, formTitle, featuredArtists,
                   previousStateRef, editorVars, builderVars, toastVars>>
    /\ UNCHANGED listVars
    /\ UNCHANGED <<categoryVars, persistVars>>

handleAddArtist ==
    /\ tab = "details"
    /\ \E newArtist \in ArtistNames :
          /\ ~Includes(featuredArtists, newArtist)
          /\ featuredArtists' = Append(featuredArtists, newArtist)
    /\ notice' = ""
    /\ UNCHANGED <<songs, now, route, tab, formTitle, songCategories,
                   previousStateRef, editorVars, builderVars, toastVars>>
    /\ UNCHANGED listVars
    /\ UNCHANGED <<categoryVars, persistVars>>

handleRemoveArtist ==
    /\ tab = "details"
    /\ \E artist \in ArtistNames :
          /\ Includes(featuredArtists, artist)
          /\ featuredArtists' = Without(featuredArtists, artist)
    /\ notice' = ""
    /\ UNCHANGED <<songs, now, route, tab, formTitle, songCategories,
                   previousStateRef, editorVars, builderVars, toastVars>>
    /\ UNCHANGED listVars
    /\ UNCHANGED <<categoryVars, persistVars>>

\* A plausible slip: the title compared without toLowerCase.
TitleTakenCaseSensitive(ss, title, isNewSong, currentId) ==
    \E i \in 1..Len(ss) :
        /\ ss[i].title = title
        /\ (isNewSong \/ ss[i].id # currentId)

\* The refine of formSchema: some other song has the title, ignoring case.
TitleTaken(ss, title, isNewSong, currentId) ==
    \E i \in 1..Len(ss) :
        /\ ToLowerCase(ss[i].title) = ToLowerCase(title)
        /\ (isNewSong \/ ss[i].id # currentId)

\* The message of formSchema for a title, "" when the title is valid.
TitleError(ss, title, isNewSong, currentId) ==
    IF Len(title) < 1 THEN "Title is required"
    ELSE IF TitleTaken(ss, title, isNewSong, currentId)
    THEN "A song with this title already exists"
    ELSE ""

\* The form differs from the values it loaded (hasChanges, which enables Save).
FormHasChanges(song) ==
    \/ formTitle # song.title
    \/ Len(songCategories) # Len(song.categories)
    \/ \E i \in 1..Len(songCategories) : ~Includes(song.categories, songCategories[i])
    \/ \E i \in 1..Len(song.categories) : ~Includes(songCategories, song.categories[i])
    \/ Len(featuredArtists) # Len(song.featuredArtists)
    \/ \E i \in 1..Len(featuredArtists) : ~Includes(song.featuredArtists, featuredArtists[i])
    \/ \E i \in 1..Len(song.featuredArtists) : ~Includes(featuredArtists, song.featuredArtists[i])

\* SongMetadataForm.onSubmit on /editor/new, behind the form's validation.
createSong ==
    /\ tab = "details"
    /\ route.page = "new"
    /\ now <= MaxNow
    /\ LET error == TitleError(songs, formTitle, TRUE, 0)
       IN IF error # ""
          THEN /\ notice' = error
               /\ UNCHANGED <<songs, now, route, tab, editorVars, builderVars, formVars>>
          ELSE /\ songs' = addSong(songs, NewSong(now, formTitle, <<>>, <<>>,
                                                  songCategories, featuredArtists))
               /\ now' = now + 1
               /\ route' = SongPage(now)
               /\ tab' = "details"
               /\ Mount(songs', route', tab', now')
               /\ notice' = "Song Created"
    /\ UNCHANGED toastVars
    /\ UNCHANGED listVars
    /\ SongsWritten

\* The toasts ts without the k-th.
CloseToast(ts, k) == SubSeq(ts, 1, k - 1) \o SubSeq(ts, k + 1, Len(ts))

\* previousStateRef.current = previousState, as the toasts on screen see it:
\* the Undo closures of the form that is mounted hold the ref just written;
\* those of a form since unmounted hold their own ref, which nothing writes
\* any more.  A form whose ref is still null has shown no toast.
RefWritten(ts, ref, previousState) ==
    [k \in 1..Len(ts) |->
        IF Truthy(ref) /\ ts[k].live
        THEN [ts[k] EXCEPT !.previousState = previousState]
        ELSE [ts[k] EXCEPT !.live = FALSE]]

\* SongMetadataForm.onSubmit for an existing song, behind the Save button
\* (enabled by hasChanges) and the form's validation.  The toast's Undo is the
\* undoChanges of this render: it holds this render's currentSong and the ref.
saveMetadata ==
    /\ tab = "details"
    /\ CurrentSong # 0
    /\ now <= MaxNow
    /\ LET currentSong == songs[CurrentSong]
           error == TitleError(songs, formTitle, FALSE, currentSong.id)
           previousState ==
               [title |-> currentSong.title, categories |-> currentSong.categories,
                featuredArtists |-> currentSong.featuredArtists]
           updatedSong ==
               [currentSong EXCEPT
                  !.title = formTitle, !.categories = songCategories,
                  !.featuredArtists = featuredArtists, !.updatedAt = now]
       IN /\ FormHasChanges(currentSong)
          /\ IF error # ""
             THEN /\ notice' = error
                  /\ UNCHANGED <<songs, now, formVars, metaToast>>
             ELSE /\ Len(metaToast) < MaxToasts
                  /\ songs' = updateSong(songs, updatedSong)
                  /\ now' = now + 1
                  /\ SetForm(FormLoaded([CurForm EXCEPT !.previousStateRef = Some(previousState)],
                                        updatedSong))
                  /\ metaToast' =
                        Append(RefWritten(metaToast, previousStateRef, previousState),
                               [song |-> currentSong, previousState |-> previousState,
                                live |-> TRUE, at |-> now])
                  /\ notice' = "Changes Saved"
    /\ UNCHANGED <<route, tab, editorVars, builderVars, arrToast>>
    /\ UNCHANGED listVars
    /\ SongsWritten

\* undoChanges as the k-th "Changes Saved" toast calls it: the closure's
\* currentSong is the record of the render that saved, previousStateRef the ref
\* of the form that showed the toast.  The tab shown reloads the song.
undoChangesOf(k) ==
    /\ now <= MaxNow
    /\ LET currentSong == metaToast[k].song
           prevState == metaToast[k].previousState
           restoredSong ==
               [currentSong EXCEPT
                  !.title = prevState.title, !.categories = prevState.categories,
                  !.featuredArtists = prevState.featuredArtists, !.updatedAt = now]
       IN /\ songs' = updateSong(songs, restoredSong)
          /\ Reload(songs', restoredSong.id, now + 1)
    /\ now' = now + 1
    /\ metaToast' = CloseToast(metaToast, k)
    /\ notice' = "Changes Undone"
    /\ UNCHANGED <<route, tab, arrToast>>
    /\ UNCHANGED listVars
    /\ SongsWritten

undoChanges == \E k \in 1..Len(metaToast) : undoChangesOf(k)

\* ------------------------------------------------- lyrics editor: new song
\* LyricsEditor.onSubmit on /editor/new: the default title is checked against
\* the store.
editorCreate ==
    /\ tab = "editor"
    /\ route.page = "new"
    /\ now <= MaxNow
    /\ LET songTitle == "Untitled Song"
       IN IF \E i \in 1..Len(songs) : ToLowerCase(songs[i].title) = ToLowerCase(songTitle)
          THEN /\ notice' = "A song with this title already exists. Please change the title after creation."
               /\ UNCHANGED <<songs, now, route, tab, editorVars, builderVars, formVars>>
          ELSE /\ songs' = addSong(songs, NewSong(now, songTitle, lyrics, sections, <<>>, <<>>))
               /\ now' = now + 1
               /\ route' = SongPage(now)
               /\ tab' = "details"
               /\ Mount(songs', route', tab', now')
               /\ notice' = "Song created"
    /\ UNCHANGED toastVars
    /\ UNCHANGED listVars
    /\ SongsWritten

\* LyricsEditor.handleSave on /editor/new (the editor without the form): the
\* song is added under the default title, unchecked.
handleSave ==
    /\ tab = "editor"
    /\ route.page = "new"
    /\ now <= MaxNow
    /\ songs' = addSong(songs, NewSong(now, "Untitled Song", lyrics, sections, <<>>, <<>>))
    /\ now' = now + 1
    /\ route' = SongPage(now)
    /\ tab' = "details"
    /\ Mount(songs', route', tab', now')
    /\ notice' = "Song created"
    /\ UNCHANGED toastVars
    /\ UNCHANGED listVars
    /\ SongsWritten

\* ---------------------------------------------- structure builder: actions
\* A plausible slip: the exchange without its temporary, one entry written
\* over the other.
SwapOverwrites(arr, i, j) ==
    [k \in 1..Len(arr) |-> IF k = i THEN arr[j] ELSE arr[k]]

\* array with the entries at positions i and j (1-based) exchanged
Swap(arr, i, j) ==
    [k \in 1..Len(arr) |-> IF k = i THEN arr[j] ELSE IF k = j THEN arr[i] ELSE arr[k]]

\* A plausible slip: a move past either end wraps around to the other end.
moveSectionWraps(arr, index, direction) ==
    LET targetIndex == IF direction = "up"
                       THEN (IF index = 0 THEN Len(arr) - 1 ELSE index - 1)
                       ELSE (IF index = Len(arr) - 1 THEN 0 ELSE index + 1)
    IN Swap(arr, index + 1, targetIndex + 1)

\* moveSection(index, direction), index counted from 0: the array it leaves in
\* currentArrangement.
moveSectionResult(arr, index, direction) ==
    IF (direction = "up" /\ index = 0) \/ (direction = "down" /\ index = Len(arr) - 1)
    THEN arr
    ELSE LET targetIndex == IF direction = "up" THEN index - 1 ELSE index + 1
         IN Swap(arr, index + 1, targetIndex + 1)

\* A click on an up or down button of a row; the effect on the arrangements
\* then sets the flag.
moveSection ==
    /\ tab = "structure"
    /\ \E index \in 0..(Len(currentArrangement) - 1), direction \in {"up", "down"} :
          currentArrangement' = moveSectionResult(currentArrangement, index, direction)
    /\ hasUnsavedChanges' =
          UnsavedChanges(currentArrangement', lastSavedArrangement, hasUnsavedChanges)
    /\ notice' = ""
    /\ UNCHANGED <<songs, now, route, tab, lastSavedArrangement, undoArrangement,
                   editorVars, formVars, toastVars>>
    /\ UNCHANGED listVars
    /\ UNCHANGED <<categoryVars, persistVars>>

\* dragOverIndex when the pointer was over no row
NoIndex == [tag |-> "null", val |-> 0]
\* A plausible slip: the dragged entry inserted at the target, the others shifted.
handleDragEndInserts(arr, draggedIndex, dragOverIndex) ==
    IF dragOverIndex.tag = "some" /\ draggedIndex # dragOverIndex.val
    THEN LET i == draggedIndex + 1
             j == dragOverIndex.val + 1
             rest == SubSeq(arr, 1, i - 1) \o SubSeq(arr, i + 1, Len(arr))
         IN SubSeq(rest, 1, j - 1) \o <<arr[i]>> \o SubSeq(rest, j, Len(rest))
    ELSE arr

\* handleDragEnd with the draggedIndex and dragOverIndex the gesture left: the
\* array it leaves in currentArrangement.
handleDragEndResult(arr, draggedIndex, dragOverIndex) ==
    IF dragOverIndex.tag = "some" /\ draggedIndex # dragOverIndex.val
    THEN Swap(arr, draggedIndex + 1, dragOverIndex.val + 1)
    ELSE arr

\* One drag of a row: handleDragStart(index), handleDragOver on the rows passed,
\* handleDragEnd; the effect on the arrangements then sets the flag.
handleDragEnd ==
    /\ tab = "structure"
    /\ \E draggedIndex \in 0..(Len(currentArrangement) - 1),
          dragOverIndex \in {Some(j) : j \in 0..(Len(currentArrangement) - 1)} \cup {NoIndex} :
          currentArrangement' =
              handleDragEndResult(currentArrangement, draggedIndex, dragOverIndex)
    /\ hasUnsavedChanges' =
          UnsavedChanges(currentArrangement', lastSavedArrangement, hasUnsavedChanges)
    /\ notice' = ""
    /\ UNCHANGED <<songs, now, route, tab, lastSavedArrangement, undoArrangement,
                   editorVars, formVars, toastVars>>
    /\ UNCHANGED listVars
    /\ UNCHANGED <<categoryVars, persistVars>>

\* restoreToSaved, behind the Discard Changes button (enabled by the flag); its
\* toast takes the place of the one shown.
restoreToSaved ==
    /\ tab = "structure"
    /\ hasUnsavedChanges
    /\ currentArrangement' = lastSavedArrangement
    /\ hasUnsavedChanges' = UnsavedChanges(currentArrangement', lastSavedArrangement, FALSE)
    /\ arrToast' = Null
    /\ notice' = "Changes Discarded"
    /\ UNCHANGED <<songs, now, route, tab, lastSavedArrangement, undoArrangement,
                   editorVars, formVars, metaToast>>
    /\ UNCHANGED listVars
    /\ UNCHANGED <<categoryVars, persistVars>>

\* SongStructureBuilder.saveArrangement, behind the Save Arrangement button
\* (enabled by the flag).  The record goes to the store through updateSong; the
\* effect on song then rebuilds the three arrangements.  The toast's Undo is
\* the undoSave of this render: it holds this render's song and undoArrangement.
saveArrangement ==
    /\ tab = "structure"
    /\ CurrentSong # 0
    /\ hasUnsavedChanges
    /\ now <= MaxNow
    /\ Len(songs[CurrentSong].versions) < MaxVersions
    /\ LET song == songs[CurrentSong]
           arrangementData == ArrangementData(currentArrangement)
           updatedSong ==
               [song EXCEPT
                  !.arrangement = Some(arrangementData),
                  !.updatedAt = now,
                  !.versions = Append(song.versions,
                                      ArrangementVersion(now, song, arrangementData))]
       IN /\ songs' = updateSong(songs, updatedSong)
          /\ SetBuilder(BuilderLoaded(updatedSong, now + 1))
          /\ arrToast' = Some([song |-> song, undoArrangement |-> undoArrangement])
    /\ now' = now + 1
    /\ notice' = "Arrangement Saved"
    /\ UNCHANGED <<route, tab, editorVars, formVars, metaToast>>
    /\ UNCHANGED listVars
    /\ SongsWritten

\* undoSave as the "Arrangement Saved" toast calls it: song and undoArrangement
\* are those of the render that saved.  The tab shown reloads the song.
undoSave ==
    /\ Truthy(arrToast)
    /\ now <= MaxNow
    /\ LET song == arrToast.val.song
           undo == arrToast.val.undoArrangement
       IN IF ~Truthy(undo) \/ Len(undo.val) = 0
          THEN /\ notice' = "Cannot Undo"
               /\ UNCHANGED <<songs, now, editorVars, builderVars, formVars>>
          ELSE LET updatedSong ==
                       [song EXCEPT
                          !.arrangement = Some(UndoArrangementData(undo.val)),
                          !.updatedAt = now]
               IN /\ songs' = updateSong(songs, updatedSong)
                  /\ Reload(songs', updatedSong.id, now + 1)
                  /\ now' = now + 1
                  /\ notice' = "Save Undone"
    /\ arrToast' = Null
    /\ UNCHANGED <<route, tab, metaToast>>
    /\ UNCHANGED listVars
    /\ SongsWritten

\* A toast leaves the screen.
dismissArrToast ==
    /\ Truthy(arrToast)
    /\ arrToast' = Null
    /\ UNCHANGED <<songs, now, route, tab, notice, editorVars, builderVars, formVars,
                   metaToast>>
    /\ UNCHANGED listVars
    /\ UNCHANGED <<categoryVars, persistVars>>

dismissMetaToast ==
    /\ \E k \in 1..Len(metaToast) : metaToast' = CloseToast(metaToast, k)
    /\ UNCHANGED <<songs, now, route, tab, notice, editorVars, builderVars, formVars,
                   arrToast>>
    /\ UNCHANGED listVars
    /\ UNCHANGED <<categoryVars, persistVars>>

\* ------------------------------------------------ store operations, called
\* The sections of a song as arrangement entries, in a given order of indices.
Entries(song, order) ==
    [k \in 1..Len(order) |->
        LET sec == song.sections[order[k]]
        IN [type |-> sec.type, start |-> sec.start, end |-> sec.end, artists |-> sec.artists]]

\* The arrangements a caller passes: the sections in list order, in reverse
\* order, and the empty array.
ArrangementInputs(song) ==
    LET n == Len(song.sections)
    IN {<<>>, Entries(song, [k \in 1..n |-> k]), Entries(song, [k \in 1..n |-> n + 1 - k])}

\* The ids a caller passes: those in the store, and 0, the id of no song.
CallIds == {songs[i].id : i \in 1..Len(songs)} \cup {0}

\* useSongStore.getState().saveSongArrangement(id, arrangement)
callSaveSongArrangement ==
    /\ now <= MaxNow
    /\ \E id \in CallIds :
          LET i == FindSong(songs, id)
          IN /\ i # 0 => Len(songs[i].versions) < MaxVersions
             /\ \E arrangement \in (IF i = 0 THEN {<<>>} ELSE ArrangementInputs(songs[i])) :
                   songs' = saveSongArrangement(songs, id, arrangement, now)
             /\ Reload(songs', id, now + 1)
             /\ notice' = IF i = 0 THEN "Song not found when saving arrangement"
                          ELSE "Updating song with new arrangement"
             /\ now' = IF i = 0 THEN now ELSE now + 1
    /\ UNCHANGED <<route, tab, toastVars>>
    /\ UNCHANGED listVars
    /\ SongsWritten

\* useSongStore.getState().restorePreviousArrangement(id)
callRestorePreviousArrangement ==
    /\ now <= MaxNow
    /\ \E id \in CallIds :
          LET i == FindSong(songs, id)
          IN /\ songs' = restorePreviousArrangement(songs, id, now)
             /\ IF i # 0 /\ Truthy(songs[i].previousArrangement)
                THEN /\ Reload(songs', id, now + 1)
                     /\ notice' = "Restoring previous arrangement"
                     /\ now' = now + 1
                ELSE /\ UNCHANGED <<now, editorVars, builderVars, formVars>>
                     /\ notice' = IF i = 0 THEN "Song not found when restoring arrangement"
                                  ELSE "No previous arrangement to restore for song"
    /\ UNCHANGED <<route, tab, toastVars>>
    /\ UNCHANGED listVars
    /\ SongsWritten

\* ------------------------------------------------------------ song list
\* SongList.handleDeleteSong(id) from a row's menu; its toast's Undo is
\* handleUndoDelete of this list.
handleDeleteSong ==
    /\ route.page = "list"
    /\ deleteToasts < MaxToasts
    /\ \E i \in 1..Len(songs) :
          LET songToDelete == songs[FindSong(songs, songs[i].id)]
          IN /\ deletedSongRef' = Some(songToDelete)
             /\ songs' = removeSong(songs, songs[i].id)
    /\ deleteToasts' = deleteToasts + 1
    /\ notice' = "Song Deleted"
    /\ UNCHANGED <<now, route, tab, editorVars, builderVars, formVars, toastVars,
                   detachedRefs>>
    /\ SongsWritten

\* A plausible slip: the restored song put first.
handleUndoDeleteSongFirst ==
    /\ route.page = "list"
    /\ deleteToasts > 0
    /\ IF Truthy(deletedSongRef)
       THEN /\ songs' = <<deletedSongRef.val>> \o songs
            /\ deletedSongRef' = Null
            /\ notice' = "Deletion Undone"
       ELSE /\ notice' = ""
            /\ UNCHANGED <<songs, deletedSongRef>>
    /\ deleteToasts' = deleteToasts - 1
    /\ UNCHANGED <<now, route, tab, editorVars, builderVars, formVars, toastVars,
                   detachedRefs>>
    /\ SongsWritten

\* SongList.handleUndoDelete, from the Undo of a "Song Deleted" toast of the
\* mounted list; the toast clicked closes.
handleUndoDelete ==
    /\ route.page = "list"
    /\ deleteToasts > 0
    /\ IF Truthy(deletedSongRef)
       THEN /\ songs' = addSong(songs, deletedSongRef.val)
            /\ deletedSongRef' = Null
            /\ notice' = "Deletion Undone"
       ELSE /\ notice' = ""
            /\ UNCHANGED <<songs, deletedSongRef>>
    /\ deleteToasts' = deleteToasts - 1
    /\ UNCHANGED <<now, route, tab, editorVars, builderVars, formVars, toastVars,
                   detachedRefs>>
    /\ SongsWritten

\* SongList.handleUndoDelete, from the Undo of a toast of a list that has
\* unmounted since: the closure holds that list's deletedSongRef.
handleUndoDeleteDetached ==
    /\ \E song \in detachedRefs :
          /\ songs' = addSong(songs, song)
          /\ detachedRefs' = detachedRefs \ {song}
    /\ notice' = "Deletion Undone"
    /\ UNCHANGED <<now, route, tab, editorVars, builderVars, formVars, toastVars,
                   deletedSongRef, deleteToasts>>
    /\ SongsWritten

\* A "Song Deleted" toast leaves the screen.
dismissDeleteToast ==
    /\ deleteToasts > 0
    /\ deleteToasts' = deleteToasts - 1
    /\ UNCHANGED <<songs, now, route, tab, notice, editorVars, builderVars, formVars,
                   toastVars, deletedSongRef, detachedRefs>>
    /\ UNCHANGED <<categoryVars, persistVars>>

dismissDetachedToast ==
    /\ \E song \in detachedRefs : detachedRefs' = detachedRefs \ {song}
    /\ UNCHANGED <<songs, now, route, tab, notice, editorVars, builderVars, formVars,
                   toastVars, deletedSongRef, deleteToasts>>
    /\ UNCHANGED <<categoryVars, persistVars>>

\* ------------------------------------------------- the stores, called directly
\* The page of a tab whose modules have loaded and whose page has not mounted.
LoadingPage == [page |-> "loading", id |-> 0]

\* The records a caller passes to addSong and updateSong: built by the caller,
\* with no arrangement and one empty version.
SongInput(id, title) == NewSong(id, title, <<>>, <<>>, <<>>, <<>>)

\* useSongStore.getState().addSong(song)
callAddSong ==
    /\ now <= MaxNow
    /\ songs' = addSong(songs, SongInput(now, "Echo"))
    /\ now' = now + 1
    /\ localStorage' = setItem(localStorage, SongsKey, PersistedSongs(songs'))
    /\ notice' = AfterSongsSet("Adding song")
    /\ UNCHANGED <<route, tab, editorVars, builderVars, formVars, toastVars, listVars,
                   categoryVars, storageFails, otherTab>>

\* useSongStore.getState().updateSong(song), for a stored id or the id of no song
callUpdateSongWith(updatedSong) ==
    /\ songs' = updateSong(songs, updatedSong)
    /\ localStorage' = setItem(localStorage, SongsKey, PersistedSongs(songs'))
    /\ notice' = AfterSongsSet("Updating song")
    /\ UNCHANGED <<now, route, tab, editorVars, builderVars, formVars, toastVars,
                   listVars, categoryVars, storageFails, otherTab>>

callUpdateSong == \E id \in CallIds : callUpdateSongWith(SongInput(id, "echo"))

\* useSongStore.getState().removeSong(id)
callRemoveSong ==
    /\ \E id \in CallIds :
          songs' = removeSong(songs, id)
    /\ localStorage' = setItem(localStorage, SongsKey, PersistedSongs(songs'))
    /\ notice' = AfterSongsSet("Removing song")
    /\ UNCHANGED <<now, route, tab, editorVars, builderVars, formVars, toastVars,
                   listVars, categoryVars, storageFails, otherTab>>

\* localStorage starts or stops throwing (the quota is reached or freed).
storageBreaks ==
    /\ storageFails' = ~storageFails
    /\ UNCHANGED <<songs, now, route, tab, notice, editorVars, builderVars, formVars,
                   toastVars, listVars, categoryVars, localStorage, otherTab>>

\* The browser reloads the tab: both store modules load again and rehydrate
\* from localStorage.  Whether the middleware writes the merged state back
\* after rehydrating depends on its version.
reloadPage ==
    /\ route.page \in {"list", "new"}
    /\ songs' = Rehydrated(localStorage, SongsKey, [songs |-> <<>>]).songs
    /\ categories' = Rehydrated(localStorage, CategoriesKey,
                                [categories |-> <<>>]).categories
    /\ \E writeBack \in BOOLEAN :
          localStorage' =
              IF writeBack
              THEN setItem(setItem(localStorage, SongsKey, PersistedSongs(songs')),
                           CategoriesKey, PersistedCategories(categories'))
              ELSE localStorage
    /\ route' = LoadingPage
    /\ tab' = "none"
    /\ notice' = ""
    /\ SetEditor(EditorInitial)
    /\ SetBuilder(BuilderInitial)
    /\ SetForm(FormInitial)
    /\ arrToast' = Null
    /\ metaToast' = <<>>
    /\ deletedSongRef' = Null
    /\ deleteToasts' = 0
    /\ detachedRefs' = {}
    /\ previousCategoryRef' = Null
    /\ undoActionRef' = "null"
    /\ categoryToasts' = <<>>
    /\ UNCHANGED <<now, storageFails, otherTab>>

\* The tab was opened on /editor/new: the editor page mounts.
showNew ==
    /\ route.page = "loading"
    /\ route' = NewPage
    /\ tab' = "details"
    /\ Mount(songs, route', tab', now)
    /\ notice' = ""
    /\ UNCHANGED <<songs, now, toastVars, listVars, categoryVars, persistVars>>

\* ----------------------------------------------------------- category list
CategoriesPage == [page |-> "categories", id |-> 0]

\* The names the model's user types into the category dialogs.
CategoryInputs == {"Jazz", "Rock", " rock "}

\* String.prototype.trim on those names.
Trim(name) == IF name = " rock " THEN "rock" ELSE name

\* categories.some((cat) => cat.id !== except && cat.name.toLowerCase() === name.trim().toLowerCase())
CategoryExists(cs, name, except) ==
    \E i \in 1..Len(cs) :
        cs[i].id # except /\ ToLowerCase(cs[i].name) = ToLowerCase(Trim(name))

\* A write of the category store has gone through its middleware.
CategoriesPersisted ==
    localStorage' = setItem(localStorage, CategoriesKey, PersistedCategories(categories'))

\* CategoryList.handleAddCategory, the submit of the Add dialog.
handleAddCategory ==
    /\ route.page = "categories"
    /\ now <= MaxNow
    /\ \E name \in CategoryInputs :
          IF CategoryExists(categories, name, 0)
          THEN /\ notice' = "A category with this name already exists"
               /\ UNCHANGED <<now, categories, localStorage>>
          ELSE /\ categories' = addCategory(categories, NewCategory(now, Trim(name), now))
               /\ now' = now + 1
               /\ CategoriesPersisted
               /\ notice' = "Category Added"
    /\ UNCHANGED <<songs, route, tab, editorVars, builderVars, formVars, toastVars,
                   listVars, previousCategoryRef, undoActionRef, categoryToasts,
                   storageFails, otherTab>>

\* A plausible slip: the rename carried into the songs that hold the old name.
handleEditCategoryCascading ==
    /\ route.page = "categories"
    /\ Len(categoryToasts) < MaxToasts
    /\ \E k \in 1..Len(categories), name \in CategoryInputs :
          LET editCategoryId == categories[k].id
              categoryToEdit == categories[k]
          IN IF CategoryExists(categories, name, editCategoryId)
             THEN /\ notice' = "A category with this name already exists"
                  /\ UNCHANGED <<songs, categoryVars, localStorage>>
             ELSE /\ previousCategoryRef' = Some(categoryToEdit)
                  /\ undoActionRef' = "edit"
                  /\ categories' = updateCategory(categories, editCategoryId, Trim(name))
                  /\ songs' = [i \in 1..Len(songs) |->
                                 [songs[i] EXCEPT !.categories =
                                     [j \in 1..Len(@) |->
                                         IF @[j] = categoryToEdit.name
                                         THEN Trim(name) ELSE @[j]]]]
                  /\ CategoriesPersisted
                  /\ categoryToasts' = Append(categoryToasts, MountedToast("Category Updated"))
                  /\ notice' = "Category Updated"
    /\ UNCHANGED <<now, route, tab, editorVars, builderVars, formVars, toastVars,
                   listVars, storageFails, otherTab>>

\* CategoryList.handleEditCategory, the submit of the Edit dialog that
\* openEditDialog opened on a row; its toast's Undo is handleUndo.
handleEditCategory ==
    /\ route.page = "categories"
    /\ Len(categoryToasts) < MaxToasts
    /\ \E k \in 1..Len(categories), name \in CategoryInputs :
          LET editCategoryId == categories[k].id
              categoryToEdit == categories[k]
          IN IF CategoryExists(categories, name, editCategoryId)
             THEN /\ notice' = "A category with this name already exists"
                  /\ UNCHANGED <<categoryVars, localStorage>>
             ELSE /\ previousCategoryRef' = Some(categoryToEdit)
                  /\ undoActionRef' = "edit"
                  /\ categories' = updateCategory(categories, editCategoryId, Trim(name))
                  /\ CategoriesPersisted
                  /\ categoryToasts' = Append(categoryToasts, MountedToast("Category Updated"))
                  /\ notice' = "Category Updated"
    /\ UNCHANGED <<songs, now, route, tab, editorVars, builderVars, formVars, toastVars,
                   listVars, storageFails, otherTab>>

\* CategoryList.handleDeleteCategory(id) from a row's menu.
handleDeleteCategory ==
    /\ route.page = "categories"
    /\ Len(categoryToasts) < MaxToasts
    /\ \E k \in 1..Len(categories) :
          /\ previousCategoryRef' = Some(categories[k])
          /\ undoActionRef' = "delete"
          /\ categories' = removeCategory(categories, categories[k].id)
    /\ CategoriesPersisted
    /\ categoryToasts' = Append(categoryToasts, MountedToast("Category Deleted"))
    /\ notice' = "Category Deleted"
    /\ UNCHANGED <<songs, now, route, tab, editorVars, builderVars, formVars, toastVars,
                   listVars, storageFails, otherTab>>

\* CategoryList.handleUndo, from the Undo of a toast of the list that is
\* mounted; the toast clicked closes.
handleUndo ==
    /\ route.page = "categories"
    /\ \E k \in 1..Len(categoryToasts) :
          /\ categoryToasts[k].list = 0
          /\ categoryToasts' = CloseToast(categoryToasts, k)
    /\ IF ~Truthy(previousCategoryRef)
       THEN /\ notice' = ""
            /\ UNCHANGED <<categories, previousCategoryRef, undoActionRef, localStorage>>
       ELSE LET prevCategory == previousCategoryRef.val
            IN /\ IF undoActionRef = "delete"
                  THEN /\ categories' = addCategory(categories, prevCategory)
                       /\ CategoriesPersisted
                       /\ notice' = "Deletion Undone"
                  ELSE IF undoActionRef = "edit"
                  THEN /\ categories' =
                             updateCategory(categories, prevCategory.id, prevCategory.name)
                       /\ CategoriesPersisted
                       /\ notice' = "Change Undone"
                  ELSE /\ notice' = ""
                       /\ UNCHANGED <<categories, localStorage>>
               /\ previousCategoryRef' = Null
               /\ undoActionRef' = "null"
    /\ UNCHANGED <<songs, now, route, tab, editorVars, builderVars, formVars, toastVars,
                   listVars, storageFails, otherTab>>

\* CategoryList.handleUndo, from the Undo of a toast whose list has unmounted:
\* it reads and clears the refs of that list, on whatever page is shown.
handleUndoDetached ==
    /\ \E k \in 1..Len(categoryToasts) :
          LET clicked == categoryToasts[k]
              cleared == [j \in 1..Len(categoryToasts) |->
                            IF categoryToasts[j].list = clicked.list
                            THEN [categoryToasts[j] EXCEPT !.previousCategory = Null,
                                                           !.undoAction = "null"]
                            ELSE categoryToasts[j]]
          IN /\ clicked.list # 0
             /\ IF ~Truthy(clicked.previousCategory)
                THEN /\ notice' = ""
                     /\ categoryToasts' = CloseToast(categoryToasts, k)
                     /\ UNCHANGED <<categories, localStorage>>
                ELSE LET prevCategory == clicked.previousCategory.val
                     IN /\ IF clicked.undoAction = "delete"
                           THEN /\ categories' = addCategory(categories, prevCategory)
                                /\ CategoriesPersisted
                                /\ notice' = "Deletion Undone"
                           ELSE IF clicked.undoAction = "edit"
                           THEN /\ categories' =
                                      updateCategory(categories, prevCategory.id,
                                                     prevCategory.name)
                                /\ CategoriesPersisted
                                /\ notice' = "Change Undone"
                           ELSE /\ notice' = ""
                                /\ UNCHANGED <<categories, localStorage>>
                        /\ categoryToasts' = CloseToast(cleared, k)
    /\ UNCHANGED <<songs, now, route, tab, editorVars, builderVars, formVars, toastVars,
                   listVars, previousCategoryRef, undoActionRef, storageFails, otherTab>>

\* The Editor link of the navigation, followed on the category page:
\* /editor/new.
leaveCategories ==
    /\ route.page = "categories"
    /\ route' = NewPage
    /\ tab' = "details"
    /\ Mount(songs, route', tab', now)
    /\ CategoryListUnmounted
    /\ notice' = ""
    /\ UNCHANGED <<songs, now, toastVars, listVars, categories, persistVars>>

\* The Categories link of the navigation, followed on the home page or on
\* /editor/new: the page unmounts, CategoryList mounts.
openCategories ==
    /\ route.page \in {"list", "new"}
    /\ route' = CategoriesPage
    /\ tab' = "none"
    /\ Mount(songs, route', tab', now)
    /\ ListUnmounted
    /\ notice' = ""
    /\ UNCHANGED <<songs, now, toastVars>>
    /\ UNCHANGED <<categoryVars, persistVars>>

\* A category toast leaves the screen.
dismissCategoryToast ==
    /\ \E k \in 1..Len(categoryToasts) : categoryToasts' = CloseToast(categoryToasts, k)
    /\ UNCHANGED <<songs, now, route, tab, notice, editorVars, builderVars, formVars,
                   toastVars, listVars, categories, previousCategoryRef, undoActionRef,
                   persistVars>>

\* ------------------------------------------------------------ a second tab
\* A second tab of the app opens: its song store rehydrates from localStorage
\* (and may write the merged state back, as in reloadPage).
otherTabOpens ==
    /\ otherTab.tag = "null"
    /\ otherTab' = Some(Rehydrated(localStorage, SongsKey,
                                   [songs |-> <<>>]).songs)
    /\ \E writeBack \in BOOLEAN :
          localStorage' =
              IF writeBack
              THEN setItem(localStorage, SongsKey, PersistedSongs(otherTab'.val))
              ELSE localStorage
    /\ UNCHANGED <<songs, now, route, tab, notice, editorVars, builderVars, formVars,
                   toastVars, listVars, categoryVars, storageFails>>

\* addSong in the second tab
otherTabAddsSong ==
    /\ otherTab.tag = "some"
    /\ now <= MaxNow
    /\ otherTab' = Some(addSong(otherTab.val, SongInput(now, "echo")))
    /\ now' = now + 1
    /\ localStorage' = setItem(localStorage, SongsKey, PersistedSongs(otherTab'.val))
    /\ UNCHANGED <<songs, route, tab, notice, editorVars, builderVars, formVars,
                   toastVars, listVars, categoryVars, storageFails>>

\* removeSong in the second tab
otherTabRemovesSong ==
    /\ otherTab.tag = "some"
    /\ \E i \in 1..Len(otherTab.val) :
          otherTab' = Some(removeSong(otherTab.val, otherTab.val[i].id))
    /\ localStorage' = setItem(localStorage, SongsKey, PersistedSongs(otherTab'.val))
    /\ UNCHANGED <<songs, now, route, tab, notice, editorVars, builderVars, formVars,
                   toastVars, listVars, categoryVars, storageFails>>

otherTabCloses ==
    /\ otherTab.tag = "some"
    /\ otherTab' = Null
    /\ UNCHANGED <<songs, now, route, tab, notice, editorVars, builderVars, formVars,
                   toastVars, listVars, categoryVars, localStorage, storageFails>>

\* ------------------------------------------------------- initial states
\* No song has been deleted and no toast of the list is on screen.
ListIdle ==
    /\ deletedSongRef = Null
    /\ deleteToasts = 0
    /\ detachedRefs = {}

\* The stores as a session without storage failures leaves them: the sample
\* categories loaded at time 1, both keys holding what the stores hold, the
\* category page not in use and no second tab.
StoresLoaded ==
    /\ categories = SampleCategories(1)
    /\ previousCategoryRef = Null
    /\ undoActionRef = "null"
    /\ categoryToasts = <<>>
    /\ storageFails = FALSE
    /\ localStorage = [name \in {SongsKey, CategoriesKey} |->
                          IF name = SongsKey
                          THEN Some(JSONStringify(PersistedSongs(songs)))
                          ELSE Some(JSONStringify(PersistedCategories(categories)))]
    /\ otherTab = Null

EditorMounted(song) ==
    /\ EditorIs(EditorLoaded(EditorInitial, song))
    /\ BuilderIs(BuilderInitial)
    /\ FormIs(FormInitial)
    /\ arrToast = Null
    /\ metaToast = <<>>
    /\ ListIdle
    /\ StoresLoaded

\* Lists of at most two sections with start < end, overlapping or not.
AnySection ==
    {[start |-> s, end |-> e, type |-> t, artists |-> <<>>] :
        s \in 0..MaxLen, e \in 0..MaxLen, t \in SectionTypes}
ValidSection == {sec \in AnySection : sec.start < sec.end}
ValidSectionLists ==
    {<<>>} \cup {<<a>> : a \in ValidSection}
           \cup {<<a, b>> : a \in ValidSection, b \in ValidSection}

\* The tagger alone, over any list of valid sections: the inputs of checkOverlap.
InitOverlap ==
    /\ songs = <<>>
    /\ now = 1
    /\ route = [page |-> "new", id |-> 0]
    /\ tab = "editor"
    /\ notice = ""
    /\ \E secs \in ValidSectionLists :
          EditorIs([EditorInitial EXCEPT !.lyrics = FullText, !.sections = secs])
    /\ BuilderIs(BuilderInitial)
    /\ FormIs(FormInitial)
    /\ arrToast = Null
    /\ metaToast = <<>>
    /\ ListIdle
    /\ StoresLoaded

NextOverlap == handleSelectionChange

SpecOverlap == InitOverlap /\ [][NextOverlap]_vars

\* The editor tab of a song the metadata form created at time 1.
InitTagger ==
    /\ songs = <<NewSong(1, "Echo", <<>>, <<>>, <<>>, <<>>)>>
    /\ now = 2
    /\ route = [page |-> "song", id |-> 1]
    /\ tab = "editor"
    /\ notice = ""
    /\ EditorMounted(songs[1])

NextTagger ==
    \/ handleSelectionChange
    \/ setSelectedType
    \/ addSection
    \/ handleLyricsChange

SpecTagger == InitTagger /\ [][NextTagger]_vars

\* LyricsEditor.onSubmit for an existing song (handleSave of the earlier editor is
\* the same code): a new version, the record replaced in the store, and the
\* effect on currentSong that reloads the form and the sections from the store.
saveLyrics ==
    /\ tab = "editor"
    /\ route.page = "song"
    /\ now <= MaxNow
    /\ LET i == FindSong(songs, route.id)
       IN /\ i # 0
          /\ Len(songs[i].versions) < MaxVersions
          /\ LET currentSong == songs[i]
                 newVersion == NewVersion(now, lyrics, sections)
                 updatedSong ==
                     [currentSong EXCEPT
                        !.lyrics = lyrics,
                        !.sections = sections,
                        !.versions = Append(currentSong.versions, newVersion),
                        !.updatedAt = now]
             IN /\ songs' = updateSong(songs, updatedSong)
                /\ lyrics' = updatedSong.lyrics
                /\ sections' = updatedSong.sections
    /\ RunTaggerEffect(selectionRange, sections')
    /\ now' = now + 1
    /\ notice' = "Song updated"
    /\ UNCHANGED <<route, tab, selectionRange, selectedType,
                   builderVars, formVars, toastVars>>
    /\ UNCHANGED listVars
    /\ SongsWritten

NextEditor ==
    \/ handleSelectionChange
    \/ addSection
    \/ handleLyricsChange
    \/ saveLyrics

\* The editor tab of the same song, opened at time t.
InitEditor(t) ==
    /\ songs = <<NewSong(1, "Echo", <<>>, <<>>, <<>>, <<>>)>>
    /\ now = t
    /\ route = [page |-> "song", id |-> 1]
    /\ tab = "editor"
    /\ notice = ""
    /\ EditorMounted(songs[1])

\* The editor tab with its Save button.
SpecEditor == InitEditor(MaxNow - 1) /\ [][NextEditor]_vars

\* ------------------------------------------------------------ the program
\* The sections of the seed song: three, tagged out of text order.
SeedSections ==
    << [start |-> 1, end |-> 2, type |-> "verse", artists |-> <<>>],
       [start |-> 2, end |-> 3, type |-> "chorus", artists |-> <<>>],
       [start |-> 0, end |-> 1, type |-> "verse", artists |-> <<>>] >>

\* The store holds one song, written and tagged on /editor/new and created
\* there at time 1 (the sample songs, loaded only into an empty store, have been
\* deleted since); the home page is shown at time t.
Seeded(t) ==
    /\ songs = <<NewSong(1, "Untitled Song", FullText, SeedSections, <<>>, <<>>)>>
    /\ now = t
    /\ route = ListPage
    /\ tab = "none"
    /\ notice = ""
    /\ EditorIs(EditorInitial)
    /\ BuilderIs(BuilderInitial)
    /\ FormIs(FormInitial)
    /\ arrToast = Null
    /\ metaToast = <<>>
    /\ ListIdle
    /\ StoresLoaded

Init == Seeded(2)

\* The song's pages and the store's arrangement operations.
Next ==
    \/ openSong
    \/ goList
    \/ selectTab
    \/ saveLyrics
    \/ moveSection
    \/ handleDragEnd
    \/ restoreToSaved
    \/ saveArrangement
    \/ undoSave
    \/ dismissArrToast
    \/ callSaveSongArrangement
    \/ callRestorePreviousArrangement

Spec == Init /\ [][Next]_vars

\* The editor tab of a song with the seed sections and one featured artist.
InitRows ==
    /\ songs = <<NewSong(1, "Echo", FullText, SeedSections, <<>>, <<"Alex Turner">>)>>
    /\ now = MaxNow - 1
    /\ route = [page |-> "song", id |-> 1]
    /\ tab = "editor"
    /\ notice = ""
    /\ EditorMounted(songs[1])

\* The tagger's list: sections untagged, performers toggled.
NextRows ==
    \/ removeSection
    \/ toggleArtistForSection

SpecRows == InitRows /\ [][NextRows]_vars

\* The editor tab of a song with the seed sections and no featured artist.
InitSections ==
    /\ songs = <<NewSong(1, "Echo", FullText, SeedSections, <<>>, <<>>)>>
    /\ now = MaxNow - 2
    /\ route = [page |-> "song", id |-> 1]
    /\ tab = "editor"
    /\ notice = ""
    /\ EditorMounted(songs[1])

\* Sections untagged, performers toggled, the lyrics and the arrangement saved.
NextSections ==
    \/ removeSection
    \/ toggleArtistForSection
    \/ saveLyrics
    \/ selectTab
    \/ moveSection
    \/ saveArrangement
    \/ undoSave

SpecSections == InitSections /\ [][NextSections]_vars

\* The details form and the creation of songs.
NextForm ==
    \/ openSong
    \/ openNew
    \/ goList
    \/ selectTab
    \/ setTitle
    \/ handleCategorySelect
    \/ handleRemoveCategory
    \/ handleAddArtist
    \/ handleRemoveArtist
    \/ createSong
    \/ saveMetadata
    \/ undoChanges
    \/ dismissMetaToast
    \/ editorCreate
    \/ handleSave
    \/ saveLyrics

InitForm == Seeded(3)

SpecForm == InitForm /\ [][NextForm]_vars

\* The details form alone: songs created and renamed, renames undone.
NextDetails ==
    \/ openSong
    \/ openNew
    \/ goList
    \/ setTitle
    \/ createSong
    \/ saveMetadata
    \/ undoChanges
    \/ dismissMetaToast

SpecDetails == InitForm /\ [][NextDetails]_vars

\* The builder's inputs: a stored song of up to three sections with start < end,
\* in any order and with equal starts among them, and an arrangement that is
\* absent, empty, or its sections in list order or in reverse order.
BuildSectionLists ==
    {<<>>} \cup {<<a>> : a \in ValidSection}
           \cup {<<a, b>> : a \in ValidSection, b \in ValidSection}
           \cup {<<a, b, c>> : a \in ValidSection, b \in ValidSection, c \in ValidSection}

InitBuild ==
    /\ \E secs \in BuildSectionLists :
          LET song == NewSong(1, "Untitled Song", FullText, secs, <<>>, <<>>)
          IN \E arr \in {Undefined} \cup {Some(e) : e \in ArrangementInputs(song)} :
                songs = <<[song EXCEPT !.arrangement = arr]>>
    /\ now = 2
    /\ route = ListPage
    /\ tab = "none"
    /\ notice = ""
    /\ EditorIs(EditorInitial)
    /\ BuilderIs(BuilderInitial)
    /\ FormIs(FormInitial)
    /\ arrToast = Null
    /\ metaToast = <<>>
    /\ ListIdle
    /\ StoresLoaded

\* The song opened and its tabs visited: the builder mounts and builds.
NextBuild ==
    \/ openSong
    \/ selectTab
    \/ goList

SpecBuild == InitBuild /\ [][NextBuild]_vars

\* The app opened on /editor/new over an empty store and the text typed into
\* the editor: a song is tagged and created there, then tagged on and saved.
InitCreate ==
    /\ songs = <<>>
    /\ now = MaxNow - 1
    /\ route = NewPage
    /\ tab = "editor"
    /\ notice = ""
    /\ EditorIs([EditorInitial EXCEPT !.lyrics = FullText])
    /\ BuilderIs(BuilderInitial)
    /\ FormIs(FormInitial)
    /\ arrToast = Null
    /\ metaToast = <<>>
    /\ ListIdle
    /\ StoresLoaded

NextCreate ==
    \/ selectTab
    \/ handleSelectionChange
    \/ addSection
    \/ createSong
    \/ editorCreate
    \/ handleSave
    \/ saveLyrics

SpecCreate == InitCreate /\ [][NextCreate]_vars

\* What the songs key may hold when a tab loads: nothing, a collection of no
\* songs, or one song saved by an earlier session.
StoredSongs ==
    {Null} \cup {Some(JSONStringify(PersistedSongs(ss))) :
                    ss \in {<<>>, <<NewSong(1, "Untitled Song", FullText, SeedSections,
                                            <<>>, <<>>)>>}}
StoredCategories ==
    {Null} \cup {Some(JSONStringify(PersistedCategories(cs))) :
                    cs \in {<<>>, <<NewCategory(1, "Jazz", 1)>>}}

\* A tab has just loaded its modules: the stores have rehydrated from what
\* localStorage held.
InitStore ==
    /\ storageFails \in BOOLEAN
    /\ \E stored \in StoredSongs, storedCategories \in StoredCategories :
          /\ localStorage = [name \in {SongsKey, CategoriesKey} |->
                                IF name = SongsKey THEN stored ELSE storedCategories]
    /\ songs = Rehydrated(localStorage, SongsKey, [songs |-> <<>>]).songs
    /\ categories = Rehydrated(localStorage, CategoriesKey,
                               [categories |-> <<>>]).categories
    /\ now = MaxNow - 1
    /\ route = LoadingPage
    /\ tab = "none"
    /\ notice = ""
    /\ EditorIs(EditorInitial)
    /\ BuilderIs(BuilderInitial)
    /\ FormIs(FormInitial)
    /\ arrToast = Null
    /\ metaToast = <<>>
    /\ ListIdle
    /\ previousCategoryRef = Null
    /\ undoActionRef = "null"
    /\ categoryToasts = <<>>
    /\ otherTab = Null

\* The song store alone: every operation of it, over a storage that may throw.
NextStore ==
    \/ callAddSong
    \/ callUpdateSong
    \/ callRemoveSong
    \/ callSaveSongArrangement
    \/ callRestorePreviousArrangement
    \/ storageBreaks

SpecStore == InitStore /\ [][NextStore]_vars

\* Loading and reloading: the pages a tab opens on, songs added and removed,
\* and the tab reloaded.
NextLoad ==
    \/ goList
    \/ showNew
    \/ reloadPage
    \/ callAddSong
    \/ callRemoveSong
    \/ storageBreaks

SpecLoad == InitStore /\ [][NextLoad]_vars

\* Two tabs over one localStorage that does not fail.
InitTabs ==
    /\ InitStore
    /\ ~storageFails

NextTabs ==
    \/ callAddSong
    \/ callRemoveSong
    \/ otherTabOpens
    \/ otherTabAddsSong
    \/ otherTabRemovesSong
    \/ otherTabCloses

SpecTabs == InitTabs /\ [][NextTabs]_vars

\* The categories page over the sample songs and two categories, "Rock" and
\* "Pop" (the other sample categories deleted in an earlier session).
InitCategories ==
    /\ songs = initializeSampleData(<<>>, 1)
    /\ now = MaxNow - 1
    /\ route = CategoriesPage
    /\ tab = "none"
    /\ notice = ""
    /\ EditorIs(EditorInitial)
    /\ BuilderIs(BuilderInitial)
    /\ FormIs(FormInitial)
    /\ arrToast = Null
    /\ metaToast = <<>>
    /\ ListIdle
    /\ categories = <<NewCategory(-1, "Rock", 1), NewCategory(-3, "Pop", 1)>>
    /\ previousCategoryRef = Null
    /\ undoActionRef = "null"
    /\ categoryToasts = <<>>
    /\ storageFails = FALSE
    /\ localStorage = [name \in {SongsKey, CategoriesKey} |->
                          IF name = SongsKey
                          THEN Some(JSONStringify(PersistedSongs(songs)))
                          ELSE Some(JSONStringify(PersistedCategories(categories)))]
    /\ otherTab = Null

NextCategories ==
    \/ handleAddCategory
    \/ handleEditCategory
    \/ handleDeleteCategory
    \/ handleUndo
    \/ dismissCategoryToast

SpecCategories == InitCategories /\ [][NextCategories]_vars

\* Renames, deletions and their undos, with the category page left for
\* /editor/new and opened again.
NextCategoryUndo ==
    \/ handleEditCategory
    \/ handleDeleteCategory
    \/ handleUndo
    \/ handleUndoDetached
    \/ dismissCategoryToast
    \/ leaveCategories
    \/ openCategories

SpecCategoryUndo == InitCategories /\ [][NextCategoryUndo]_vars

\* The app just loaded: Home has mounted over an empty store and its effect
\* has put the sample songs there.
InitList ==
    /\ songs = initializeSampleData(<<>>, MaxNow - 1)
    /\ now = MaxNow
    /\ route = ListPage
    /\ tab = "none"
    /\ notice = ""
    /\ EditorIs(EditorInitial)
    /\ BuilderIs(BuilderInitial)
    /\ FormIs(FormInitial)
    /\ arrToast = Null
    /\ metaToast = <<>>
    /\ ListIdle
    /\ StoresLoaded

\* The song list with its delete and undo, and the pages it leads to.
NextList ==
    \/ handleDeleteSong
    \/ handleUndoDelete
    \/ handleUndoDeleteDetached
    \/ dismissDeleteToast
    \/ dismissDetachedToast
    \/ openSong
    \/ openNew
    \/ goList

SpecList == InitList /\ [][NextList]_vars

\* ------------------------------------------------------------------ claims
\* Half-open interval overlap: s1 < e2 and s2 < e1.
RangesOverlap(s1, e1, s2, e2) == s1 < e2 /\ s2 < e1

NonOverlapping(secs) ==
    \A i, j \in 1..Len(secs) :
        i # j => ~RangesOverlap(secs[i].start, secs[i].end, secs[j].start, secs[j].end)

OverlapsSome(secs, sel) ==
    \E i \in 1..Len(secs) :
        RangesOverlap(sel.start, sel.end, secs[i].start, secs[i].end)

ValidSelection(sel) == sel.tag = "range" /\ sel.start < sel.end

\* C1: from a song without overlapping sections, after any selection changes and
\* Add Section actions the sections of the list are pairwise non-overlapping
\* (half-open); an Add Section whose selection overlaps a section leaves the
\* list unchanged, and one that overlaps none (touching included) appends it.
C1_NonOverlap ==
    /\ [](NonOverlapping(sections))
    /\ [][(addSection /\ ValidSelection(selectionRange))
            => IF OverlapsSome(sections, selectionRange)
               THEN sections' = sections
               ELSE sections' = Append(sections, NewSection(selectionRange, selectedType))]_vars

\* Two sections that touch are in the list, and an overlapping Add Section was
\* just rejected.
C1_Witness ==
    /\ \E i, j \in 1..Len(sections) : sections[i].end = sections[j].start
    /\ ValidSelection(selectionRange)
    /\ OverlapsSome(sections, selectionRange)
    /\ notice = "Invalid selection range or overlap"

\* C2: for a candidate with start < end and sections with start < end,
\* checkOverlap reports an overlap exactly when some section [s,e) has
\* candidate.start < e and s < candidate.end; touching a boundary is no overlap,
\* containing a section is one.
C2_OverlapPredicate ==
    ValidSelection(selectionRange)
        => /\ checkedRange = selectionRange
           /\ hasOverlap = OverlapsSome(sections, selectionRange)
           /\ (\E i \in 1..Len(sections) :
                  /\ selectionRange.start <= sections[i].start
                  /\ sections[i].end <= selectionRange.end) => hasOverlap
           /\ (\A i \in 1..Len(sections) :
                  \/ selectionRange.start >= sections[i].end
                  \/ selectionRange.end <= sections[i].start) => ~hasOverlap

\* The candidate lies between two sections and touches both; no overlap reported.
C2_Witness ==
    /\ ValidSelection(selectionRange)
    /\ Len(sections) = 2
    /\ sections[1].end = selectionRange.start
    /\ selectionRange.end = sections[2].start
    /\ ~hasOverlap

\* C3: a null selection or one with start >= end is never passed to
\* checkOverlap, and Add Section with such a selection leaves the list unchanged.
C3_InvalidSelection ==
    /\ [](/\ checkedRange.tag = "range" => checkedRange.start < checkedRange.end
          /\ ~ValidSelection(selectionRange) => checkedRange = NoSelection)
    /\ [][(addSection /\ ~ValidSelection(selectionRange)) => sections' = sections]_vars

\* An inverted or empty selection is live, no check was made for it, and Add
\* Section was refused.
C3_Witness ==
    /\ selectionRange.tag = "range"
    /\ selectionRange.start >= selectionRange.end
    /\ checkedRange = NoSelection
    /\ Len(sections) > 0
    /\ notice = "Invalid selection range or overlap"

\* C4: every section of a stored song satisfies
\* 0 <= start < end <= length(lyrics) for the lyrics of the same record.
C4_SectionsWithinLyrics ==
    \A i \in 1..Len(songs) :
        \A k \in 1..Len(songs[i].sections) :
            LET sec == songs[i].sections[k]
            IN 0 <= sec.start /\ sec.start < sec.end /\ sec.end <= Len(songs[i].lyrics)

\* new is old with exactly one entry appended
AppendsOne(old, new) ==
    Len(new) = Len(old) + 1 /\ SubSeq(new, 1, Len(old)) = old

\* old is an initial part of new
IsPrefix(old, new) ==
    Len(old) <= Len(new) /\ SubSeq(new, 1, Len(old)) = old

\* a step that is a save on an existing song and succeeds
SuccessfulSave ==
    \/ saveLyrics
    \/ saveArrangement
    \/ (callSaveSongArrangement /\ notice' = "Updating song with new arrangement")

\* C5: every successful save on an existing song (the lyrics editor's save, the
\* structure builder's Save Arrangement, saveSongArrangement) leaves one song's
\* versions one entry longer than the store held before the save, the earlier
\* entries unchanged and in place, and no other song's record changed.
C5_SaveAppendsOneVersion ==
    [][SuccessfulSave =>
          /\ Len(songs') = Len(songs)
          /\ \E i \in 1..Len(songs) :
                /\ songs'[i].id = songs[i].id
                /\ AppendsOne(songs[i].versions, songs'[i].versions)
                /\ \A k \in 1..Len(songs) : k # i => songs'[k] = songs[k]]_vars

\* A save just made on a song whose list it brought to MaxVersions entries, the
\* last entry written at the song's updatedAt, an arrangement save among them.
C5_Witness ==
    /\ notice \in {"Song updated", "Arrangement Saved", "Updating song with new arrangement"}
    /\ \E i \in 1..Len(songs) :
          /\ Len(songs[i].versions) = MaxVersions
          /\ songs[i].updatedAt = songs[i].versions[MaxVersions].timestamp
          /\ \E k \in 2..MaxVersions : Truthy(songs[i].versions[k].arrangement)

\* C6: for a song that stays in the store the versions list only grows by
\* appending, across every operation, the undo of a save included: after any
\* step the list held before is an initial part of the list held after.
C6_VersionsAppendOnly ==
    [][\A i \in 1..Len(songs) :
          \A k \in 1..Len(songs') :
              songs'[k].id = songs[i].id =>
                  IsPrefix(songs[i].versions, songs'[k].versions)]_vars

\* C7: for a song with arrangement A1, saveSongArrangement(id, A2) gives
\* arrangement A2 and previousArrangement A1, and restorePreviousArrangement(id)
\* after it gives arrangement A1 and previousArrangement null.
C7_StoreUndoRoundTrip ==
    \A i \in 1..Len(songs) :
        (FindSong(songs, songs[i].id) = i /\ Truthy(songs[i].arrangement)) =>
            \A A2 \in ArrangementInputs(songs[i]) :
                LET id == songs[i].id
                    A1 == songs[i].arrangement.val
                    saved == saveSongArrangement(songs, id, A2, now)
                    restored == restorePreviousArrangement(saved, id, now + 1)
                IN /\ saved[i].arrangement = Some(A2)
                   /\ saved[i].previousArrangement = Some(A1)
                   /\ restored[i].arrangement = Some(A1)
                   /\ restored[i].previousArrangement = Null

\* The round trip made: a song of three versions, the last two written by
\* arrangement saves, that holds the arrangement of the earlier save again and
\* an emptied undo slot.
C7_Witness ==
    /\ notice = "Restoring previous arrangement"
    /\ \E i \in 1..Len(songs) :
          /\ Len(songs[i].versions) = 3
          /\ Truthy(songs[i].versions[2].arrangement)
          /\ Truthy(songs[i].versions[3].arrangement)
          /\ songs[i].versions[3].arrangement # songs[i].versions[2].arrangement
          /\ songs[i].arrangement = songs[i].versions[2].arrangement
          /\ songs[i].previousArrangement = Null

\* C8: restorePreviousArrangement on a song whose previousArrangement is null
\* or absent leaves the songs collection as it is.
C8_RestoreWithoutPreviousIsNoOp ==
    \A i \in 1..Len(songs) :
        ~Truthy(songs[i].previousArrangement) =>
            restorePreviousArrangement(songs, songs[i].id, now) = songs

\* A restore just refused on a song whose undo slot is null: the slot was
\* emptied by an earlier restore or set to null by the first arrangement save.
C8_Witness ==
    /\ notice = "No previous arrangement to restore for song"
    /\ \E i \in 1..Len(songs) :
          /\ songs[i].previousArrangement = Null
          /\ Truthy(songs[i].arrangement)

\* a step that is a save writing a song's arrangement
ArrangementSave ==
    \/ saveArrangement
    \/ (callSaveSongArrangement /\ notice' = "Updating song with new arrangement")

\* C9: whenever a save overwrites a song's arrangement, through the structure
\* builder's Save Arrangement or through saveSongArrangement, the song's
\* previousArrangement afterwards is the arrangement the store held for the
\* song before the save (null or absent when it held none).
C9_PreviousArrangementIsPrior ==
    [][ArrangementSave =>
          \A i \in 1..Len(songs) :
              songs'[i] # songs[i] =>
                  IF Truthy(songs[i].arrangement)
                  THEN songs'[i].previousArrangement = songs[i].arrangement
                  ELSE ~Truthy(songs'[i].previousArrangement)]_vars

\* C10: creating a song whose title equals an existing song's title without
\* regard to case is rejected: a step that adds a song adds none whose title,
\* in lower case, is that of a song already in the store.
C10_DuplicateTitleRejected ==
    [][Len(songs') > Len(songs) =>
          \A i \in 1..Len(songs) :
              ToLowerCase(songs'[Len(songs')].title) # ToLowerCase(songs[i].title)]_vars

\* C11: in every reachable state of the store no two songs have titles that
\* are equal ignoring case.
C11_TitlesUnique ==
    \A i \in 1..Len(songs) :
        \A k \in 1..Len(songs) :
            i # k => ToLowerCase(songs[i].title) # ToLowerCase(songs[k].title)

\* C12: in every reachable state of the store the ids of the songs are
\* pairwise distinct, and a step that keeps the number of songs keeps the id at
\* every position.
C12_IdsUnique ==
    /\ [](\A i \in 1..Len(songs) :
             \A k \in 1..Len(songs) : i # k => songs[i].id # songs[k].id)
    /\ [][Len(songs') = Len(songs) =>
             \A i \in 1..Len(songs) : songs'[i].id = songs[i].id]_vars

\* the ids of the songs of ss are pairwise distinct
DistinctIds(ss) ==
    \A i \in 1..Len(ss) : \A k \in 1..Len(ss) : i # k => ss[i].id # ss[k].id

\* the array without its element at position i
DropAt(ss, i) == SubSeq(ss, 1, i - 1) \o SubSeq(ss, i + 1, Len(ss))

\* C13: deleting a song of a store of different songs leaves the other songs
\* as they were and in their order, and the undo of the delete then puts the
\* same record at the end of the array, not at its former position.
C13_DeleteThenUndo ==
    /\ [][(handleDeleteSong /\ DistinctIds(songs)) =>
             \E i \in 1..Len(songs) :
                 /\ songs' = DropAt(songs, i)
                 /\ deletedSongRef' = Some(songs[i])]_vars
    /\ [][(handleUndoDelete /\ Truthy(deletedSongRef)) =>
             songs' = Append(songs, deletedSongRef.val)]_vars

\* The first of three songs was deleted and restored: it is now the last.
C13_Witness ==
    /\ notice = "Deletion Undone"
    /\ Len(songs) = 3
    /\ songs[1].id = -2
    /\ songs[2].id = -3
    /\ songs[3].id = -1

\* the deleted songs an Undo on screen would put back
Restorable ==
    (IF Truthy(deletedSongRef) /\ deleteToasts > 0 THEN {deletedSongRef.val} ELSE {})
        \cup detachedRefs

\* a click on the Undo of a "Song Deleted" toast
UndoDeleteClick == handleUndoDelete \/ handleUndoDeleteDetached

\* C14: the undo buffer of deleted songs is one slot used once: at any time at
\* most one deleted song can be put back (after deleting A then B it is B), an
\* undo that adds a song adds that song and leaves none to put back, and an
\* undo with nothing to put back adds nothing.
C14_SingleSlotOneShot ==
    /\ [](Cardinality(Restorable) <= 1)
    /\ [][UndoDeleteClick =>
             IF Restorable = {}
             THEN songs' = songs
             ELSE /\ \E song \in Restorable : songs' = Append(songs, song)
                  /\ Restorable' = {}]_vars

\* C15: moveSection(0, "up") and moveSection(last index, "down") leave the
\* current arrangement equal by value to the arrangement before the call.
C15_MoveAtBoundary ==
    (tab = "structure" /\ Len(currentArrangement) > 0) =>
        /\ moveSectionResult(currentArrangement, 0, "up") = currentArrangement
        /\ moveSectionResult(currentArrangement, Len(currentArrangement) - 1, "down")
              = currentArrangement

\* The builder shows an arrangement of three rows that earlier moves have
\* brought out of the saved order, its first and last rows different.
C15_Witness ==
    /\ tab = "structure"
    /\ Len(currentArrangement) = 3
    /\ hasUnsavedChanges
    /\ currentArrangement[1] # currentArrangement[3]
    /\ currentArrangement[1] = lastSavedArrangement[2]

\* the arrangements differ in length or at some position in type, start or end
ArrangementsDiffer(current, lastSaved) ==
    \/ Len(current) # Len(lastSaved)
    \/ \E i \in 1..Len(current) :
          \/ current[i].type # lastSaved[i].type
          \/ current[i].originalStart # lastSaved[i].originalStart
          \/ current[i].originalEnd # lastSaved[i].originalEnd

\* C18: after any moves, drags, discards, saves and undos in the builder the
\* flag hasUnsavedChanges is true exactly when the current and the last saved
\* arrangement differ in length or at some position in (type, start, end);
\* a row moved up and then down again from the saved order leaves it false.
C18_UnsavedFlagExact ==
    /\ hasUnsavedChanges <=> ArrangementsDiffer(currentArrangement, lastSavedArrangement)
    /\ tab = "structure" =>
          \A index \in 1..(Len(lastSavedArrangement) - 1) :
              LET up == moveSectionResult(lastSavedArrangement, index, "up")
                  back == moveSectionResult(up, index - 1, "down")
              IN /\ UnsavedChanges(up, lastSavedArrangement, FALSE)
                    = ArrangementsDiffer(up, lastSavedArrangement)
                 /\ ~UnsavedChanges(back, lastSavedArrangement, TRUE)

\* Rows exchanged after a save: the current arrangement has the types of the
\* saved one at every position and other offsets at some, and the flag is up.
C18_Witness ==
    /\ tab = "structure"
    /\ hasUnsavedChanges
    /\ Len(currentArrangement) = 3
    /\ Len(songs[1].versions) > 1
    /\ \A i \in 1..3 : currentArrangement[i].type = lastSavedArrangement[i].type
    /\ \E i \in 1..3 :
          currentArrangement[i].originalStart # lastSavedArrangement[i].originalStart

\* C19: a drag from index i to index j exchanges the entries at i and j and
\* leaves every other position as it was; a drop on the same index changes
\* nothing.
C19_DragSwaps ==
    tab = "structure" =>
        \A i \in 0..(Len(currentArrangement) - 1) :
            \A j \in 0..(Len(currentArrangement) - 1) :
                LET r == handleDragEndResult(currentArrangement, i, Some(j))
                IN /\ Len(r) = Len(currentArrangement)
                   /\ r[i + 1] = currentArrangement[j + 1]
                   /\ r[j + 1] = currentArrangement[i + 1]
                   /\ \A k \in 1..Len(r) :
                         (k # i + 1 /\ k # j + 1) => r[k] = currentArrangement[k]

\* The first and the last of three rows exchanged, the middle one in place.
C19_Witness ==
    /\ tab = "structure"
    /\ Len(currentArrangement) = 3
    /\ currentArrangement[1] = lastSavedArrangement[3]
    /\ currentArrangement[3] = lastSavedArrangement[1]
    /\ currentArrangement[2] = lastSavedArrangement[2]
    /\ currentArrangement[1] # currentArrangement[3]

\* (type, start, end) of each row of a built arrangement
Triples(arr) ==
    [k \in 1..Len(arr) |->
        <<arr[k].type, arr[k].originalStart, arr[k].originalEnd>>]

\* the song whose page is shown
ShownSong == songs[FindSong(songs, route.id)]

\* C16: for a song whose arrangement is absent or empty the built arrangement
\* is the sections in ascending order of start, sections of equal start in
\* their order in sections; building again gives the same (type, start, end)
\* ordering.
C16_BuildFromSections ==
    (tab = "structure"
       /\ ~(Truthy(ShownSong.arrangement) /\ Len(ShownSong.arrangement.val) > 0)) =>
        LET secs == ShownSong.sections
            built == currentArrangement
            from(k) == built[k].id[1] + 1
        IN /\ Len(built) = Len(secs)
           /\ \A k \in 1..Len(built) :
                 /\ from(k) \in 1..Len(secs)
                 /\ built[k].type = secs[from(k)].type
                 /\ built[k].originalStart = secs[from(k)].start
                 /\ built[k].originalEnd = secs[from(k)].end
           /\ \A k \in 1..Len(built) : \A l \in (k + 1)..Len(built) :
                 /\ built[k].originalStart <= built[l].originalStart
                 /\ from(k) # from(l)
                 /\ built[k].originalStart = built[l].originalStart => from(k) < from(l)
           /\ \A t \in 0..(MaxNow + 1) :
                 Triples(BuildArrangement(ShownSong, t)) = Triples(built)

\* Three sections, the first after the other two, which start together and
\* differ: the builder shows the second, the third, the first.
C16_Witness ==
    /\ tab = "structure"
    /\ ShownSong.arrangement = Some(<<>>)
    /\ Len(ShownSong.sections) = 3
    /\ ShownSong.sections[1].start > ShownSong.sections[2].start
    /\ ShownSong.sections[2].start = ShownSong.sections[3].start
    /\ ShownSong.sections[2] # ShownSong.sections[3]
    /\ currentArrangement[1].id[1] = 1
    /\ currentArrangement[3].id[1] = 0

\* C17: for a song with a non-empty stored arrangement the built arrangement
\* has one row per stored entry, in the stored order, with the entry's type,
\* start and end, whatever the order of sections.
C17_BuildFromArrangement ==
    (tab = "structure"
       /\ Truthy(ShownSong.arrangement) /\ Len(ShownSong.arrangement.val) > 0) =>
        LET stored == ShownSong.arrangement.val
        IN /\ Len(currentArrangement) = Len(stored)
           /\ \A k \in 1..Len(stored) :
                 /\ currentArrangement[k].type = stored[k].type
                 /\ currentArrangement[k].originalStart = stored[k].start
                 /\ currentArrangement[k].originalEnd = stored[k].end

\* A stored arrangement of three entries that is not in order of start and is
\* not the order of sections either.
C17_Witness ==
    /\ tab = "structure"
    /\ Truthy(ShownSong.arrangement)
    /\ Len(ShownSong.arrangement.val) = 3
    /\ Len(currentArrangement) = 3
    /\ currentArrangement[1].originalStart > currentArrangement[2].originalStart
    /\ currentArrangement[1].originalStart = ShownSong.sections[3].start
    /\ ShownSong.sections[3] # ShownSong.sections[1]

\* a step of one of the three creation handlers that adds a song
Creation ==
    /\ createSong \/ editorCreate \/ handleSave
    /\ Len(songs') = Len(songs) + 1

\* C20: a newly created song enters the store with exactly one version, whose
\* lyrics and sections are the song's own (for a song created in the editor,
\* the text and the sections of the editor); every song in the store has a
\* non-empty versions list in every state.
C20_FirstVersionMirrorsSong ==
    /\ [](\A i \in 1..Len(songs) : Len(songs[i].versions) >= 1)
    /\ [][Creation =>
            LET song == songs'[Len(songs')]
            IN /\ Len(song.versions) = 1
               /\ song.versions[1].lyrics = song.lyrics
               /\ song.versions[1].sections = song.sections
               /\ tab = "editor" => (song.lyrics = lyrics /\ song.sections = sections)]_vars

\* A song just created in the editor with text and a tagged section.
C20_Witness ==
    /\ notice = "Song created"
    /\ Len(songs) >= 1
    /\ LET song == songs[Len(songs)]
       IN /\ route = SongPage(song.id)
          /\ Len(song.lyrics) > 0
          /\ Len(song.sections) > 0
          /\ Len(song.versions) = 1

\* C21: updateSong(s) puts s, as given, in the place of the stored record of
\* the same id and leaves every other song, the number of songs and their
\* order as they were; with no stored song of that id the collection is
\* unchanged.
C21_UpdateSongReplaces ==
    [][\A id \in CallIds :
          LET s == SongInput(id, "echo")
          IN callUpdateSongWith(s) =>
                /\ Len(songs') = Len(songs)
                /\ \A i \in 1..Len(songs) :
                      songs'[i] = IF songs[i].id = s.id THEN s ELSE songs[i]
                /\ FindSong(songs, s.id) = 0 => songs' = songs]_vars

\* The stored song of three sections replaced by the record given, which has
\* none, next to a song that was not touched.
C21_Witness ==
    /\ notice = "Updating song"
    /\ Len(songs) = 2
    /\ songs[1] = SongInput(1, "echo")
    /\ songs[2].title = "Echo"
    /\ songs[2].id # 1

\* a call of the song store that went through set
StoreMutation ==
    \/ callAddSong
    \/ callUpdateSong
    \/ callRemoveSong
    \/ (callSaveSongArrangement \/ callRestorePreviousArrangement) /\ songs' # songs

\* C23: in one tab whose storage writes succeed, after every mutation of the
\* song store the text under the songs key is the serialized in-memory
\* collection in full: each operation's write is done when the operation
\* returns, so the writes are in the order of the calls.
C23_StorageFollowsMemory ==
    [][(StoreMutation /\ ~storageFails) =>
          /\ localStorage'[SongsKey] = Some(JSONStringify(PersistedSongs(songs')))
          /\ localStorage'[CategoriesKey] = localStorage[CategoriesKey]]_vars

\* An arrangement saved in a store of two songs: the key holds both songs and
\* the two versions of the first, as memory does.
C23_Witness ==
    /\ ~storageFails
    /\ notice = "Updating song with new arrangement"
    /\ Len(songs) = 2
    /\ Len(songs[1].versions) = 2
    /\ localStorage[SongsKey] = Some(JSONStringify(PersistedSongs(songs)))

\* C25: while the calls of localStorage throw, a store operation still returns
\* to its caller without an error and has its effect on the in-memory
\* collection, which the next operations act on; the storage is left as it
\* was, and a store that cannot read starts empty.
C25_StorageFailureIsNotFatal ==
    [][storageFails =>
          /\ callAddSong =>
                /\ songs' = addSong(songs, SongInput(now, "Echo"))
                /\ notice' = "Adding song"
                /\ localStorage' = localStorage
          /\ callRemoveSong =>
                /\ \E id \in CallIds : songs' = removeSong(songs, id)
                /\ notice' = "Removing song"
                /\ localStorage' = localStorage
          /\ reloadPage =>
                /\ songs' = <<>>
                /\ categories' = <<>>
                /\ route' = LoadingPage
                /\ localStorage' = localStorage]_vars

\* With writes failing a song was added and the stored one removed: memory
\* holds the added song alone, the key still the stored one.
C25_Witness ==
    /\ storageFails
    /\ notice = "Removing song"
    /\ Len(songs) = 1
    /\ songs[1].title = "Echo"
    /\ localStorage[SongsKey].tag = "some"
    /\ Len(localStorage[SongsKey].val.state.songs) = 1
    /\ localStorage[SongsKey].val.state.songs[1].id = 1

\* the collection a key holds, as JSON.parse reads it; none when the key is empty
PersistedList(name, field) ==
    IF localStorage[name].tag = "some"
    THEN JSONParse(localStorage[name].val).state[field]
    ELSE <<>>

\* C24: when a tab loads and localStorage can be read, the songs (and the
\* categories) in memory are the persisted collection when the key holds one
\* that is not empty, and the empty collection otherwise.
C24_StartFromPersisted ==
    [][(reloadPage /\ ~storageFails) =>
          /\ songs' = PersistedList(SongsKey, "songs")
          /\ categories' = PersistedList(CategoriesKey, "categories")]_vars

\* A tab reloaded over a stored collection of two songs and the sample
\* categories, its page not mounted yet.
C24_Witness ==
    /\ route = LoadingPage
    /\ Len(songs) = 2
    /\ songs[1].id = 1
    /\ Len(categories) = 6
    /\ ~storageFails

\* C26: sample songs are generated only when the songs collection is empty
\* and live in memory only: the Home page's initializeSampleData leaves the
\* songs key of localStorage as it was.
C26_SamplesNotPersisted ==
    [][goList =>
          /\ songs' # songs => Len(songs) = 0
          /\ localStorage'[SongsKey] = localStorage[SongsKey]]_vars

C27_CategoryNamesUnique ==
    \A i \in 1..Len(categories) : \A k \in 1..Len(categories) :
        i # k => ToLowerCase(categories[i].name) # ToLowerCase(categories[k].name)

\* C28: renaming or deleting a category (and undoing either) changes no song
\* record: every song's categories list is the same before and after, also
\* when it holds the old name.
C28_SongsKeepCategoryNames ==
    [][(handleEditCategory \/ handleDeleteCategory \/ handleUndo) =>
          /\ songs' = songs
          /\ localStorage'[SongsKey] = localStorage[SongsKey]]_vars

\* "Rock" renamed while the first sample song is filed under it: the store
\* has no category of that name, the song still names it.
C28_Witness ==
    /\ notice = "Category Updated"
    /\ \A i \in 1..Len(categories) : categories[i].name # "Rock"
    /\ \E i \in 1..Len(categories) : categories[i].id = -1
    /\ Includes(songs[1].categories, "Rock")

\* Title, categories and featured performers of a record.
Metadata(song) ==
    [title |-> song.title, categories |-> song.categories,
     featuredArtists |-> song.featuredArtists]

\* Two "Changes Saved" toasts of one song are on screen and nothing wrote the
\* song between the two saves: the record the second save replaced is the one
\* the first save wrote.
TwoSavesNoUndoBetween ==
    /\ Len(metaToast) = 2
    /\ metaToast[1].song.id = metaToast[2].song.id
    /\ metaToast[2].song.updatedAt = metaToast[1].at
    /\ FindSong(songs, metaToast[1].song.id) # 0

\* C29: the metadata undo buffer has one slot: after two metadata saves on a
\* song with no undo between them, an undo leaves title, categories and
\* featured performers as they were just before the second save, never as they
\* were before the first save.
C29_MetadataUndoSingleSlot ==
    [][(TwoSavesNoUndoBetween /\ undoChanges) =>
          LET restored == Metadata(songs'[FindSong(songs', metaToast[1].song.id)])
          IN /\ restored = Metadata(metaToast[2].song)
             /\ restored # Metadata(metaToast[1].song)]_vars

\* C30: undoing a metadata save changes title, categories, featured performers
\* and updatedAt only: lyrics, sections, arrangement, previousArrangement and
\* versions of every song stay as the store held them just before the undo,
\* also when lyrics were saved after the metadata save.
C30_MetadataUndoKeepsOtherFacets ==
    [][undoChanges =>
          /\ Len(songs') = Len(songs)
          /\ \A i \in 1..Len(songs) :
                /\ songs'[i].id = songs[i].id
                /\ songs'[i].lyrics = songs[i].lyrics
                /\ songs'[i].sections = songs[i].sections
                /\ songs'[i].arrangement = songs[i].arrangement
                /\ songs'[i].previousArrangement = songs[i].previousArrangement
                /\ songs'[i].versions = songs[i].versions]_vars

\* C33: saveSongArrangement and restorePreviousArrangement called with an id
\* that matches no stored song abort: the songs collection, and what storage
\* holds of it, are unchanged.
C33_UnknownIdChangesNothing ==
    [][((callSaveSongArrangement \/ callRestorePreviousArrangement)
          /\ notice' \in {"Song not found when saving arrangement",
                          "Song not found when restoring arrangement"}) =>
          /\ songs' = songs
          /\ localStorage' = localStorage]_vars

\* A save called with an id of no song, on a store that an earlier save had
\* changed.
C33_Witness ==
    /\ notice = "Song not found when saving arrangement"
    /\ \E i \in 1..Len(songs) : Truthy(songs[i].previousArrangement)

\* (type, start, end) of each entry of a stored arrangement
StoredTriples(arrangement) ==
    [k \in 1..Len(arrangement) |->
        <<arrangement[k].type, arrangement[k].start, arrangement[k].end>>]

\* the test by which undoSave answers "Cannot Undo"
CannotUndo(undo) == ~Truthy(undo) \/ Len(undo.val) = 0

\* the first half of C31 alone: the undo puts back the arrangement the save
\* replaced
UndoRestoresReplaced ==
    [][(undoSave /\ notice' = "Save Undone"
          /\ Truthy(arrToast.val.song.arrangement)
          /\ Len(arrToast.val.song.arrangement.val) > 0) =>
          LET i == FindSong(songs', arrToast.val.song.id)
          IN i # 0 =>
               /\ Truthy(songs'[i].arrangement)
               /\ StoredTriples(songs'[i].arrangement.val) =
                     StoredTriples(arrToast.val.song.arrangement.val)]_vars

\* C31: the builder's undo of an arrangement save has one level: the undo after
\* saving A2 over A1 sets the (type, start, end) sequence of the stored
\* arrangement back to A1, and it leaves the builder with nothing to undo, so a
\* second undo in a row is answered with "Cannot Undo" and writes nothing.
C31_BuilderUndoOneLevel ==
    [][(undoSave /\ notice' = "Save Undone"
          /\ Truthy(arrToast.val.song.arrangement)
          /\ Len(arrToast.val.song.arrangement.val) > 0) =>
          LET i == FindSong(songs', arrToast.val.song.id)
          IN /\ i # 0 =>
                  /\ Truthy(songs'[i].arrangement)
                  /\ StoredTriples(songs'[i].arrangement.val) =
                        StoredTriples(arrToast.val.song.arrangement.val)
             /\ (tab' = "structure" /\ i # 0 /\ route'.id = songs'[i].id) =>
                  CannotUndo(undoArrangement')]_vars

\* the section shown in row index of the tagger's list (rows in ascending
\* order of start) is sections[k]
RowIs(index, k) ==
    /\ k \in 1..Len(sections)
    /\ Cardinality({j \in 1..Len(sections) : sections[j].start < sections[k].start}) = index

\* the names in a performers array
Performers(artists) == {artists[i] : i \in 1..Len(artists)}

\* C34: removing a row removes the sections whose (start, end, type) equal the
\* row's and leaves every other section as it was and in the same relative
\* order; among sections that do not overlap exactly one section goes.
C34_RemoveSectionRemovesChosen ==
    [][\A index \in 0..(Len(sections) - 1) :
          removeSectionAt(index) =>
             \E k \in 1..Len(sections) :
                /\ RowIs(index, k)
                /\ sections' =
                      SelectSeq(sections,
                                LAMBDA sec : ~(/\ sec.start = sections[k].start
                                               /\ sec.end = sections[k].end
                                               /\ sec.type = sections[k].type))
                /\ NonOverlapping(sections) => Len(sections') = Len(sections) - 1]_vars

\* The first row (the section at offset 0, last in the array) was removed:
\* the two sections tagged before it are left, in their order.
C34_Witness ==
    /\ tab = "editor"
    /\ sections = <<SeedSections[1], SeedSections[2]>>
    /\ FindSong(songs, 1) # 0
    /\ songs[FindSong(songs, 1)].sections = SeedSections

\* C35: toggling a performer on a row adds the name to that section's
\* performers when it is absent and removes it when present; the section's
\* start, end and type and every other section stay as they were, and the
\* same toggle made again gives back the performer set from before.
C35_TogglePerformer ==
    [][\A index \in 0..(Len(sections) - 1) : \A artist \in {"Chester", "Alex Turner"} :
          toggleArtistForSectionAt(index, artist) =>
             \E k \in 1..Len(sections) :
                /\ RowIs(index, k)
                /\ Len(sections') = Len(sections)
                /\ \A j \in 1..Len(sections) : j # k => sections'[j] = sections[j]
                /\ sections'[k].start = sections[k].start
                /\ sections'[k].end = sections[k].end
                /\ sections'[k].type = sections[k].type
                /\ Performers(sections'[k].artists) =
                      IF artist \in Performers(sections[k].artists)
                      THEN Performers(sections[k].artists) \ {artist}
                      ELSE Performers(sections[k].artists) \cup {artist}
                /\ Performers(toggleArtistForSectionResult(sections', index, artist)[k].artists)
                      = Performers(sections[k].artists)]_vars

\* One section has both performers, toggled on one after the other, while
\* another section has none.
C35_Witness ==
    /\ \E k \in 1..Len(sections) : sections[k].artists = <<"Alex Turner", "Chester">>
    /\ \E k \in 1..Len(sections) : sections[k].artists = <<>>

\* C36: a successful Add Section leaves no selection (selectionRange is null),
\* so that Add Section pressed again without a new selection adds nothing.
C36_AddClearsSelection ==
    [][addSection =>
          /\ sections' # sections =>
                /\ selectionRange' = NoSelection
                /\ ~canAddSection'
                /\ ~addSectionAllowed'
          /\ selectionRange = NoSelection => sections' = sections]_vars

\* Add Section was pressed again after a section was added, with no new
\* selection: it was turned down.
C36_Witness ==
    /\ Len(sections) = 1
    /\ selectionRange = NoSelection
    /\ notice = "Invalid selection range or overlap"

\* the performers stored with the section of the record that has the entry's
\* (type, start, end) are the entry's performers (an entry without the key
\* has none)
PerformersKept(song, entry) ==
    \A j \in 1..Len(song.sections) :
        (/\ song.sections[j].type = entry.type
         /\ song.sections[j].start = entry.start
         /\ song.sections[j].end = entry.end) =>
            song.sections[j].artists =
                IF "artists" \in DOMAIN entry THEN entry.artists ELSE <<>>

\* C32: every entry of an arrangement that the builder's save or undo writes
\* carries the performers of the section with the same (type, start, end)
\* that it was built from.
C32_PerformersSurviveArrangement ==
    [][(saveArrangement \/ (undoSave /\ notice' = "Save Undone")) =>
          \A i \in 1..Len(songs') :
             (songs'[i] # songs[i] /\ Truthy(songs'[i].arrangement)) =>
                \A k \in 1..Len(songs'[i].arrangement.val) :
                   PerformersKept(songs'[i], songs'[i].arrangement.val[k])]_vars

\* C39: once a song has a saved arrangement that is not empty, the
\* (type, start, end) of every arrangement entry is that of a section tagged
\* in the song and every tagged section is in the arrangement, whatever
\* sections are removed and lyrics saved afterwards.
C39_ArrangementMatchesSections ==
    \A i \in 1..Len(songs) :
        (Truthy(songs[i].arrangement) /\ Len(songs[i].arrangement.val) > 0) =>
            LET entries == StoredTriples(songs[i].arrangement.val)
                tagged == [j \in 1..Len(songs[i].sections) |->
                              <<songs[i].sections[j].type, songs[i].sections[j].start,
                                songs[i].sections[j].end>>]
            IN {entries[k] : k \in 1..Len(entries)} = {tagged[j] : j \in 1..Len(tagged)}

\* the (type, start, end) sequence the builder shows for a stored record: that
\* of its arrangement when it has entries, else its sections by ascending start
ExpectedTriples(song) ==
    IF Truthy(song.arrangement) /\ Len(song.arrangement.val) > 0
    THEN StoredTriples(song.arrangement.val)
    ELSE LET sorted == SortSections(song.sections)
         IN [k \in 1..Len(sorted) |-> <<sorted[k].type, sorted[k].start, sorted[k].end>>]

\* C37: whenever the stored record of the open song changes, or another song
\* is opened, the builder's current and last saved arrangement are built anew
\* from the stored record and hasUnsavedChanges is false: reorderings not yet
\* saved are gone.
C37_BuilderRebuiltOnRecordChange ==
    [][(/\ tab' = "structure"
        /\ route'.page = "song"
        /\ FindSong(songs', route'.id) # 0
        /\ \/ route' # route
           \/ FindSong(songs, route.id) = 0
           \/ songs'[FindSong(songs', route'.id)] # songs[FindSong(songs, route.id)]) =>
          LET song == songs'[FindSong(songs', route'.id)]
          IN /\ Triples(currentArrangement') = ExpectedTriples(song)
             /\ Triples(lastSavedArrangement') = ExpectedTriples(song)
             /\ ~hasUnsavedChanges']_vars

\* The store's saveSongArrangement wrote the open song while the builder was
\* shown with the toast of an earlier save: the builder shows the stored
\* order, nothing unsaved.
C37_Witness ==
    /\ tab = "structure"
    /\ notice = "Updating song with new arrangement"
    /\ Truthy(arrToast)
    /\ Triples(currentArrangement) = ExpectedTriples(ShownSong)
    /\ StoredTriples(ShownSong.arrangement.val) # StoredTriples(ShownSong.previousArrangement.val)

\* how many rows of an arrangement have the (type, start, end) x
CountOf(arr, x) == Cardinality({k \in 1..Len(arr) : Triples(arr)[k] = x})

\* C38: moving up or down, dragging and discarding leave a permutation of the
\* arrangement built on load: the same length and the same (type, start, end)
\* entries as many times each; the same drag swap made twice gives back the
\* order from before.
C38_ReorderingPermutes ==
    tab = "structure" =>
        /\ Len(currentArrangement) = Len(lastSavedArrangement)
        /\ \A k \in 1..Len(lastSavedArrangement) :
              CountOf(currentArrangement, Triples(lastSavedArrangement)[k]) =
                 CountOf(lastSavedArrangement, Triples(lastSavedArrangement)[k])
        /\ \A i \in 0..(Len(currentArrangement) - 1) :
              \A j \in 0..(Len(currentArrangement) - 1) :
                 handleDragEndResult(handleDragEndResult(currentArrangement, i, Some(j)),
                                     i, Some(j)) = currentArrangement

\* Three rows two reorderings away from the loaded order: each row in another
\* place.
C38_Witness ==
    /\ tab = "structure"
    /\ Len(currentArrangement) = 3
    /\ \A k \in 1..3 : Triples(currentArrangement)[k] # Triples(lastSavedArrangement)[k]

\* The category page has just deleted a category, and the toast of a rename
\* and the toast of that deletion are on screen, in that order: neither Undo
\* has been clicked since the rename.  The category deleted is the one
\* handleDeleteCategory has just put in previousCategoryRef.
RenamedThenDeleted ==
    /\ route.page = "categories"
    /\ notice = "Category Deleted"
    /\ Len(categoryToasts) = 2
    /\ categoryToasts[1].title = "Category Updated"
    /\ categoryToasts[2].title = "Category Deleted"

\* C40: the category list has one undo slot shared by rename and delete.
\* After a rename and then a deletion with no undo between, the Undo of
\* either toast re-adds the deleted category and changes nothing else (the
\* renamed category keeps its new name); after any undo no toast on screen
\* has anything left to undo.
C40_CategoryUndoSharedSlot ==
    [][(handleUndo \/ handleUndoDetached) =>
          /\ RenamedThenDeleted =>
                categories' = Append(categories, previousCategoryRef.val)
          /\ previousCategoryRef'.tag = "null"
          /\ \A k \in 1..Len(categoryToasts') :
                categoryToasts'[k].previousCategory.tag = "null"]_vars

====
